---- MODULE Spec2Model ----
(***************************************************************************)
(* Model of the zion-games order backend.                                  *)
(*                                                                         *)
(*    backend/crud.py          order/item store and the derived            *)
(*                             enviado / enviado_em pair of an order       *)
(*    backend/main.py          /fulfillment/create with its idempotency    *)
(*                             cache _IDEM_CACHE, /fulfillment/status,     *)
(*                             /yampi/webhook with the order ingestion,    *)
(*                             _normalize_email_for_response               *)
(*    backend/fullfillments.py the router variant of /fulfillment/create   *)
(*    backend/webhook/yampi.py the router variant of /yampi/webhook        *)
(*    api/yampi_webhook.py     the webhook forwarder                       *)
(*                                                                         *)
(*  The specifications share the variables:                                *)
(*    Spec       the crud.py handlers run one at a time (each handler is   *)
(*               one step);                                                *)
(*    SpecConc   handlers run in separate database sessions, one step per  *)
(*               SQL statement / commit;                                   *)
(*    SpecIdem   the /fulfillment/create requests of a process that runs   *)
(*               either main.py or the router of fullfillments.py;         *)
(*    SpecHook   the storefront webhook deliveries and the status          *)
(*               callbacks handled by one process;                         *)
(*    SpecIngest the order ingestion applied to a bounded set of payloads; *)
(*    SpecNorm   the email normalization applied to a string and to its    *)
(*               own results;                                              *)
(*    SpecCompare the signature checks of the three webhook modules and    *)
(*               of /fulfillment/status, with the work each comparison     *)
(*               does;                                                     *)
(*    SpecGroup  the grouped view of the orders by external code;          *)
(*    SpecCrud   the back-office routes of main.py, with the order patch   *)
(*               and the combined sale;                                    *)
(*    SpecFrame  the item routes and the order patch on orders that are    *)
(*               never deleted;                                            *)
(*    SpecPatch  PATCH /itens/{item_id} with every field, time passing;    *)
(*    SpecShop   webhook ingestion, status callbacks and the item routes   *)
(*               on the same tables;                                       *)
(*    SpecAddr   the email normalization applied to every short string     *)
(*               over a small alphabet;                                    *)
(*    SpecRelay  the webhook forwarder of api/yampi_webhook.py alone;      *)
(*    SpecTrigger the webhook of main.py over every event and status;      *)
(*    SpecDispatch order ingestion followed by the body of the request     *)
(*               to /fulfillment/create.                                   *)
(***************************************************************************)
EXTENDS Integers, Sequences, FiniteSets, TLC

VARIABLES
    pedidos,        \* table pedidos: id -> row
    itens,          \* table itens_pedido: id -> row
    nextPedidoId,   \* next value of the pedidos.id sequence
    nextItemId,     \* next value of the itens_pedido.id sequence
    clock,          \* datetime.utcnow(), in seconds
    rt,             \* history: the toggle round trip in progress
    ret,            \* what the last crud.py handler returned
    sess,           \* SpecConc: the open database sessions
    cfg,            \* SpecIdem: the deployed module and its environment
    _IDEM_CACHE,    \* SpecIdem: main._IDEM_CACHE
    IDEM_CACHE,     \* SpecIdem: fullfillments.IDEM_CACHE
    reqs,           \* SpecIdem: the /fulfillment/create requests
    calls,          \* SpecIdem: history, outbound calls made per key
    ok2xx,          \* SpecIdem: history, keys whose outbound call returned 2xx
    env,            \* the environment of the process
    hooks,          \* SpecHook: the storefront webhook deliveries handled
    dispatches,     \* SpecHook: history, dispatch calls received by the
                    \* automation engine, per external order code
    cbs,            \* SpecHook: the status callbacks handled
    marks,          \* SpecHook: history, mark-delivered calls sent
    fin,            \* SpecNorm: the string given to the function
    fout            \* SpecNorm: the strings the function returned

dbVars   == <<pedidos, itens, nextPedidoId, nextItemId, clock, rt, ret>>
concVars == <<sess>>
idemVars == <<cfg, _IDEM_CACHE, IDEM_CACHE, reqs, calls, ok2xx>>
hookVars == <<env, hooks, dispatches, cbs, marks, fin, fout>>
vars     == <<dbVars, concVars, idemVars, hookVars>>

----------------------------------------------------------------------------
(* Bounds of the model.                                                    *)

MaxPedidos == 2
MaxItens   == 2
MaxClock   == 2

----------------------------------------------------------------------------
(* backend/crud.py: rows and helpers.                                      *)

\* Python's None in the nullable column enviado_em; timestamps are 1..MaxClock.
None == 0

PedidoIds == 1..MaxPedidos
ItemIds   == 1..MaxItens

Nomes    == {"jogoA", "jogoB"}

\* _now_iso(): the current time at second resolution.
_now_iso == clock

\* db.query(ItemPedido).filter(pedido_id == pid).all(), reduced to the flag
\* the recomputation reads: item id -> enviado.
QueryItens(I, pid) ==
    [i \in {j \in DOMAIN I : I[j].pedido_id = pid} |-> I[i].enviado]

\* all(bool(i.enviado) for i in itens)
all_sent(q) == \A i \in DOMAIN q : q[i]

\* The body of recompute_pedido_enviado after its two reads: q is the item
\* list it queried, p the Pedido row it loaded; the result is the row it
\* leaves in the session.
RecomputeBugKeepStamp(q, p, now) ==
    IF DOMAIN q = {}
    THEN [p EXCEPT !.enviado = FALSE, !.enviado_em = None]
    ELSE IF all_sent(q)
         THEN [p EXCEPT !.enviado = TRUE,
                        !.enviado_em = IF @ = None THEN now ELSE @]
         ELSE [p EXCEPT !.enviado = FALSE]

RecomputeBugEmptyAll(q, p, now) ==
    IF all_sent(q)
    THEN [p EXCEPT !.enviado = TRUE,
                   !.enviado_em = IF @ = None THEN now ELSE @]
    ELSE [p EXCEPT !.enviado = FALSE, !.enviado_em = None]

RecomputeBugRestamp(q, p, now) ==
    IF DOMAIN q = {}
    THEN [p EXCEPT !.enviado = FALSE, !.enviado_em = None]
    ELSE IF all_sent(q)
         THEN [p EXCEPT !.enviado = TRUE, !.enviado_em = now]
         ELSE [p EXCEPT !.enviado = FALSE, !.enviado_em = None]

RecomputeBugNoStamp(q, p, now) ==
    IF DOMAIN q = {}
    THEN [p EXCEPT !.enviado = FALSE, !.enviado_em = None]
    ELSE IF all_sent(q)
         THEN [p EXCEPT !.enviado = TRUE]
         ELSE [p EXCEPT !.enviado = FALSE, !.enviado_em = None]

Recompute(q, p, now) ==
    IF DOMAIN q = {}
    THEN [p EXCEPT !.enviado = FALSE, !.enviado_em = None]
    ELSE IF all_sent(q)
         THEN [p EXCEPT !.enviado = TRUE,
                        !.enviado_em = IF @ = None THEN now ELSE @]
         ELSE [p EXCEPT !.enviado = FALSE, !.enviado_em = None]

\* recompute_pedido_enviado writing its result to every Pedido row.
RecomputeBugEveryOrder(P, I, pedido_id, now) ==
    IF pedido_id \notin DOMAIN P
    THEN P
    ELSE [p \in DOMAIN P |-> Recompute(QueryItens(I, pedido_id), P[p], now)]

\* recompute_pedido_enviado(db, pedido_id) followed by db.commit(), run
\* against the tables P and I with nothing in between: the new pedidos table.
recompute_pedido_enviado(P, I, pedido_id, now) ==
    IF pedido_id \notin DOMAIN P
    THEN P
    ELSE [P EXCEPT ![pedido_id] = Recompute(QueryItens(I, pedido_id), @, now)]

\* Remove the keys ks from the table f.
Without(f, ks) == [k \in DOMAIN f \ ks |-> f[k]]

\* Add the row r under key k to the table f.
With(f, k, r) == [j \in DOMAIN f \cup {k} |-> IF j = k THEN r ELSE f[j]]

----------------------------------------------------------------------------
(* History of the toggle round trip: rt.n counts the consecutive           *)
(* toggle_enviado calls on rt.item, the first of which found it un-shipped; *)
(* rt.enviado / rt.enviado_em are the order's values before the first.     *)

\* The value of ret while no handler has returned.
NoRet == [op |-> "", r |-> "ok"]

NoRT == [n |-> 0, item |-> 0, enviado |-> FALSE, enviado_em |-> None]

----------------------------------------------------------------------------
(* Spec: the handlers of crud.py, one at a time.                           *)

\* ItemUpdate as sent by a caller: each field unset, or set to a value;
\* enviado may also be set to an explicit null.
ItemUpdates ==
    [nome_produto : {"unset"} \cup Nomes,
     enviado      : {"unset", "null", "true", "false"}]

\* The patches the callers of Spec and SpecConc send: those of the enviado
\* field, the one field of an item the order's derived pair depends on.
ItemPatches == {d \in ItemUpdates : d.nome_produto = "unset"}

criar_pedido ==
    /\ nextPedidoId <= MaxPedidos
    /\ pedidos' = With(pedidos, nextPedidoId,
                       [enviado |-> FALSE, enviado_em |-> None])
    /\ nextPedidoId' = nextPedidoId + 1
    /\ rt' = NoRT
    /\ ret' = [op |-> "criar_pedido",
               r  |-> "ok"]
    /\ UNCHANGED <<itens, nextItemId, clock, concVars, idemVars, hookVars>>

excluir_pedido(pedido_id) ==
    /\ IF pedido_id \notin DOMAIN pedidos
       THEN UNCHANGED <<pedidos, itens>>
       ELSE \* relationship cascade="all, delete-orphan": the items go first
            /\ itens' = Without(itens, {i \in DOMAIN itens :
                                            itens[i].pedido_id = pedido_id})
            /\ pedidos' = Without(pedidos, {pedido_id})
    /\ rt' = NoRT
    /\ ret' = [op |-> "excluir_pedido",
               r  |-> IF pedido_id \notin DOMAIN pedidos THEN "none" ELSE "ok"]
    /\ UNCHANGED <<nextPedidoId, nextItemId, clock, concVars, idemVars, hookVars>>

\* criar_item without the obter_pedido test of its first lines.
CriarItemBugNoCheck(pedido_id, nome, enviado) ==
    /\ nextItemId <= MaxItens
    /\ LET item == [pedido_id    |-> pedido_id,
                    nome_produto |-> nome,
                    enviado      |-> enviado,
                    enviado_em   |-> IF enviado THEN _now_iso ELSE None]
           I1 == With(itens, nextItemId, item)
       IN  /\ itens' = I1
           /\ pedidos' = recompute_pedido_enviado(pedidos, I1, pedido_id, _now_iso)
           /\ nextItemId' = nextItemId + 1
    /\ rt' = NoRT
    /\ ret' = [op |-> "criar_item", r |-> "ok"]
    /\ UNCHANGED <<nextPedidoId, clock, concVars, idemVars, hookVars>>

criar_item(pedido_id, nome, enviado) ==
    /\ nextItemId <= MaxItens
    /\ IF pedido_id \notin DOMAIN pedidos
       THEN UNCHANGED <<pedidos, itens, nextItemId>>
       ELSE LET item == [pedido_id    |-> pedido_id,
                         nome_produto |-> nome,
                         enviado      |-> enviado,
                         enviado_em   |-> IF enviado THEN _now_iso ELSE None]
                I1 == With(itens, nextItemId, item)
            IN  /\ itens' = I1
                /\ pedidos' = recompute_pedido_enviado(pedidos, I1, pedido_id, _now_iso)
                /\ nextItemId' = nextItemId + 1
    /\ rt' = NoRT
    \* None, which the route turns into 404, when the order does not exist
    /\ ret' = [op |-> "criar_item",
               r  |-> IF pedido_id \notin DOMAIN pedidos THEN "none" ELSE "ok"]
    /\ UNCHANGED <<nextPedidoId, clock, concVars, idemVars, hookVars>>

\* The row atualizar_item leaves in the session before its first commit.
PatchedItemBugRestamp(item, data) ==
    LET novo == data.enviado = "true"
        i1 == [item EXCEPT !.nome_produto =
                   IF data.nome_produto = "unset" THEN @ ELSE data.nome_produto]
    IN  IF data.enviado \in {"true", "false"}
        THEN [i1 EXCEPT !.enviado = novo,
                        !.enviado_em = IF novo THEN _now_iso ELSE None]
        ELSE i1

PatchedItem(item, data) ==
    LET antigo_enviado == item.enviado
        novo == data.enviado = "true"
        i1 == [item EXCEPT !.nome_produto =
                   IF data.nome_produto = "unset" THEN @ ELSE data.nome_produto]
    IN  IF data.enviado \in {"true", "false"}
        THEN [i1 EXCEPT !.enviado = novo,
                        !.enviado_em =
                            IF novo /\ ~antigo_enviado THEN _now_iso
                            ELSE IF ~novo /\ antigo_enviado THEN None
                            ELSE @]
        ELSE i1

atualizar_item(item_id, data) ==
    /\ IF item_id \notin DOMAIN itens
       THEN UNCHANGED <<pedidos, itens>>
       ELSE IF data.enviado = "null"
       THEN \* enviado is NOT NULL: the first commit raises IntegrityError
            UNCHANGED <<pedidos, itens>>
       ELSE LET I1 == [itens EXCEPT ![item_id] = PatchedItem(@, data)]
            IN  /\ itens' = I1
                /\ pedidos' = recompute_pedido_enviado(
                                  pedidos, I1, itens[item_id].pedido_id, _now_iso)
    /\ rt' = NoRT
    /\ ret' = [op |-> "atualizar_item",
               r  |-> IF item_id \notin DOMAIN itens THEN "none" ELSE IF data.enviado = "null" THEN "error" ELSE "ok"]
    /\ UNCHANGED <<nextPedidoId, nextItemId, clock, concVars, idemVars, hookVars>>

excluir_item(item_id) ==
    /\ IF item_id \notin DOMAIN itens
       THEN UNCHANGED <<pedidos, itens>>
       ELSE LET pedido_id == itens[item_id].pedido_id
                I1 == Without(itens, {item_id})
            IN  /\ itens' = I1
                /\ pedidos' = recompute_pedido_enviado(pedidos, I1, pedido_id, _now_iso)
    /\ rt' = NoRT
    /\ ret' = [op |-> "excluir_item",
               r  |-> IF item_id \notin DOMAIN itens THEN "none" ELSE "ok"]
    /\ UNCHANGED <<nextPedidoId, nextItemId, clock, concVars, idemVars, hookVars>>

\* The row toggle_enviado leaves in the session before its first commit.
ToggledItemBugKeepStamp(item) ==
    [item EXCEPT !.enviado = ~@,
                 !.enviado_em = IF ~item.enviado THEN _now_iso ELSE @]

ToggledItem(item) ==
    [item EXCEPT !.enviado = ~@,
                 !.enviado_em = IF ~item.enviado THEN _now_iso ELSE None]

toggle_enviado(item_id) ==
    /\ IF item_id \notin DOMAIN itens
       THEN /\ rt' = NoRT
            /\ UNCHANGED <<pedidos, itens>>
       ELSE LET pedido_id == itens[item_id].pedido_id
                I1 == [itens EXCEPT ![item_id] = ToggledItem(@)]
            IN  /\ itens' = I1
                /\ pedidos' = recompute_pedido_enviado(pedidos, I1, pedido_id, _now_iso)
                /\ rt' = IF rt.n = 1 /\ rt.item = item_id
                         THEN [rt EXCEPT !.n = 2]
                         ELSE IF ~itens[item_id].enviado
                         THEN [n |-> 1, item |-> item_id,
                               enviado    |-> pedidos[pedido_id].enviado,
                               enviado_em |-> pedidos[pedido_id].enviado_em]
                         ELSE NoRT
    /\ ret' = [op |-> "toggle_enviado",
               r  |-> IF item_id \notin DOMAIN itens THEN "none" ELSE "ok"]
    /\ UNCHANGED <<nextPedidoId, nextItemId, clock, concVars, idemVars, hookVars>>

\* Time passes between two handlers.
Tick ==
    /\ clock < MaxClock
    /\ clock' = clock + 1
    /\ UNCHANGED <<pedidos, itens, nextPedidoId, nextItemId, rt, ret, concVars, idemVars, hookVars>>

InitDb ==
    /\ pedidos = <<>>
    /\ itens = <<>>
    /\ nextPedidoId = 1
    /\ nextItemId = 1
    /\ clock = 1
    /\ rt = NoRT
    /\ ret = NoRet

InitConcIdle == sess = <<>>

InitIdemIdle ==
    /\ cfg = [impl |-> "main", dry_run |-> FALSE, configured |-> TRUE]
    /\ _IDEM_CACHE = {}
    /\ IDEM_CACHE = {}
    /\ reqs = <<>>
    /\ calls = <<>>
    /\ ok2xx = {}

\* No webhook, callback or function call is modelled in this specification.
InitHookIdle ==
    /\ env = [impl |-> "main", secret |-> 0, token |-> TRUE, fk |-> TRUE]
    /\ hooks = << >>
    /\ dispatches = << >>
    /\ cbs = << >>
    /\ marks = << >>
    /\ fin = << >>
    /\ fout = << >>

Init == InitDb /\ InitConcIdle /\ InitIdemIdle /\ InitHookIdle

ExcluirPedido  == \E p \in PedidoIds : excluir_pedido(p)
CriarItem      == \E p \in PedidoIds, e \in BOOLEAN : criar_item(p, "jogoA", e)
AtualizarItem  == \E i \in ItemIds, d \in ItemPatches : atualizar_item(i, d)
ExcluirItem    == \E i \in ItemIds : excluir_item(i)
ToggleEnviado  == \E i \in ItemIds : toggle_enviado(i)

Next ==
    \/ criar_pedido
    \/ ExcluirPedido
    \/ CriarItem
    \/ AtualizarItem
    \/ ExcluirItem
    \/ ToggleEnviado
    \/ Tick

Spec == Init /\ [][Next]_vars

----------------------------------------------------------------------------
(* SpecConc: the item handlers of crud.py in separate database sessions    *)
(* (database.get_db opens one session per request).  A step is one SQL     *)
(* statement or one commit; between two steps of a session the other       *)
(* sessions may run.  A commit writes, for each row the session changed,   *)
(* the columns whose value differs from the value the session loaded.      *)

MaxSess == 2

Sessions == 1..MaxSess

NoItem   == [pedido_id |-> 0, nome_produto |-> "", enviado |-> FALSE, enviado_em |-> None]
NoPedido == [enviado |-> FALSE, enviado_em |-> None]
NoPatch  == [nome_produto |-> "unset", enviado |-> "unset"]

\* A session that serves no request yet.
Idle ==
    [pc |-> "idle", op |-> "none", item_id |-> 0, pedido_id |-> 0,
     data |-> NoPatch, loaded |-> NoItem, row |-> NoItem, q |-> <<>>, p |-> NoPedido]

\* UPDATE ... SET of a flush: the columns of the session's row `new` that
\* differ from the loaded row, written over the row `dbrow` of the table.
ColUpdate(dbrow, loaded, new) ==
    [c \in DOMAIN dbrow |-> IF new[c] # loaded[c] THEN new[c] ELSE dbrow[c]]

\* toggle_enviado: obter_item, then the flip in the session.
BeginToggle(s) ==
    /\ sess[s].pc = "idle"
    /\ \E item_id \in ItemIds :
          sess' = [sess EXCEPT ![s] =
             IF item_id \notin DOMAIN itens
             THEN [Idle EXCEPT !.pc = "done", !.op = "toggle"]
             ELSE [Idle EXCEPT !.pc = "loaded", !.op = "toggle",
                               !.item_id = item_id,
                               !.pedido_id = itens[item_id].pedido_id,
                               !.loaded = itens[item_id],
                               !.row = ToggledItem(itens[item_id])]]
    /\ UNCHANGED <<dbVars, idemVars, hookVars>>

\* atualizar_item: obter_item, then the patch in the session.
BeginAtualizar(s) ==
    /\ sess[s].pc = "idle"
    /\ \E item_id \in ItemIds, data \in ItemPatches :
          sess' = [sess EXCEPT ![s] =
             IF item_id \notin DOMAIN itens
             THEN [Idle EXCEPT !.pc = "done", !.op = "atualizar"]
             ELSE [Idle EXCEPT !.pc = "loaded", !.op = "atualizar",
                               !.item_id = item_id,
                               !.pedido_id = itens[item_id].pedido_id,
                               !.data = data,
                               !.loaded = itens[item_id],
                               !.row = PatchedItem(itens[item_id], data)]]
    /\ UNCHANGED <<dbVars, idemVars, hookVars>>

\* criar_item: obter_pedido, then the new row in the session.
BeginCriar(s) ==
    /\ sess[s].pc = "idle"
    /\ \E pedido_id \in PedidoIds, enviado \in BOOLEAN :
          sess' = [sess EXCEPT ![s] =
             IF pedido_id \notin DOMAIN pedidos
             THEN [Idle EXCEPT !.pc = "done", !.op = "criar"]
             ELSE [Idle EXCEPT !.pc = "loaded", !.op = "criar",
                               !.pedido_id = pedido_id,
                               !.row = [pedido_id    |-> pedido_id,
                                        nome_produto |-> "jogoA",
                                        enviado      |-> enviado,
                                        enviado_em   |-> IF enviado THEN _now_iso
                                                         ELSE None]]]
    /\ UNCHANGED <<dbVars, idemVars, hookVars>>

\* excluir_item: obter_item, then db.delete(item) in the session.
BeginExcluir(s) ==
    /\ sess[s].pc = "idle"
    /\ \E item_id \in ItemIds :
          sess' = [sess EXCEPT ![s] =
             IF item_id \notin DOMAIN itens
             THEN [Idle EXCEPT !.pc = "done", !.op = "excluir"]
             ELSE [Idle EXCEPT !.pc = "loaded", !.op = "excluir",
                               !.item_id = item_id,
                               !.pedido_id = itens[item_id].pedido_id,
                               !.loaded = itens[item_id]]]
    /\ UNCHANGED <<dbVars, idemVars, hookVars>>

\* excluir_pedido: obter_pedido.
BeginExcluirPedido(s) ==
    /\ sess[s].pc = "idle"
    /\ \E pedido_id \in PedidoIds :
          sess' = [sess EXCEPT ![s] =
             IF pedido_id \notin DOMAIN pedidos
             THEN [Idle EXCEPT !.pc = "done", !.op = "excluir_pedido"]
             ELSE [Idle EXCEPT !.pc = "pedido_loaded", !.op = "excluir_pedido",
                               !.pedido_id = pedido_id,
                               !.p = pedidos[pedido_id]]]
    /\ UNCHANGED <<dbVars, idemVars, hookVars>>

\* excluir_pedido: db.delete(p) walks the cascade of Pedido.itens, which
\* loads the order's items into the session.
LoadItensDoPedido(s) ==
    /\ sess[s].pc = "pedido_loaded"
    /\ sess' = [sess EXCEPT ![s].pc = "deleting",
                            ![s].q = QueryItens(itens, sess[s].pedido_id)]
    /\ UNCHANGED <<dbVars, idemVars, hookVars>>

\* excluir_pedido: db.commit() deletes the loaded items and then the order.
\* A database that enforces ForeignKey(ondelete="CASCADE") also removes the
\* items the session has not loaded; one that does not enforce foreign keys
\* (SQLite as database.py opens it) leaves them.
CommitExcluirPedido(s) ==
    /\ sess[s].pc = "deleting"
    /\ LET r == sess[s]
           gone == IF env.fk
                   THEN {i \in DOMAIN itens : itens[i].pedido_id = r.pedido_id}
                   ELSE DOMAIN r.q
       IN  /\ itens' = Without(itens, gone)
           /\ pedidos' = Without(pedidos, {r.pedido_id})
           /\ sess' = [sess EXCEPT ![s].pc = "done"]
    /\ UNCHANGED <<nextPedidoId, nextItemId, clock, rt, ret, idemVars, hookVars>>

\* The first db.commit() of the handler: the item write becomes visible to
\* every session.
CommitItem(s) ==
    /\ sess[s].pc = "loaded"
    /\ LET r == sess[s] IN
       CASE r.op = "criar" ->
              IF env.fk /\ r.pedido_id \notin DOMAIN pedidos
              THEN \* ForeignKey("pedidos.id"), where enforced: IntegrityError
                   /\ sess' = [sess EXCEPT ![s].pc = "failed"]
                   /\ UNCHANGED <<itens, nextItemId>>
              ELSE /\ itens' = With(itens, nextItemId, r.row)
                   /\ nextItemId' = nextItemId + 1
                   /\ sess' = [sess EXCEPT ![s].pc = "committed",
                                           ![s].item_id = nextItemId]
         [] r.op = "excluir" ->
              \* no db.refresh(item) follows the delete
              /\ itens' = Without(itens, {r.item_id})
              /\ sess' = [sess EXCEPT ![s].pc = "refreshed"]
              /\ UNCHANGED nextItemId
         [] OTHER ->
              IF \/ r.data.enviado = "null"
                 \/ (r.row # r.loaded /\ r.item_id \notin DOMAIN itens)
              THEN \* IntegrityError (NOT NULL) or StaleDataError (row gone)
                   /\ sess' = [sess EXCEPT ![s].pc = "failed"]
                   /\ UNCHANGED <<itens, nextItemId>>
              ELSE /\ itens' = IF r.item_id \in DOMAIN itens
                               THEN [itens EXCEPT ![r.item_id] =
                                        ColUpdate(@, r.loaded, r.row)]
                               ELSE itens
                   /\ sess' = [sess EXCEPT ![s].pc = "committed"]
                   /\ UNCHANGED nextItemId
    /\ UNCHANGED <<pedidos, nextPedidoId, clock, rt, ret, idemVars, hookVars>>

\* db.refresh(item): fails when the row is gone.
RefreshItem(s) ==
    /\ sess[s].pc = "committed"
    /\ sess' = [sess EXCEPT ![s].pc =
                   IF sess[s].item_id \in DOMAIN itens THEN "refreshed" ELSE "failed"]
    /\ UNCHANGED <<dbVars, idemVars, hookVars>>

\* recompute_pedido_enviado, first statement: the query of the order's items.
QueryItensStep(s) ==
    /\ sess[s].pc = "refreshed"
    /\ sess' = [sess EXCEPT ![s].pc = "queried",
                            ![s].q = QueryItens(itens, sess[s].pedido_id)]
    /\ UNCHANGED <<dbVars, idemVars, hookVars>>

\* recompute_pedido_enviado, second statement: db.get(Pedido, pedido_id);
\* without a row the function returns and the commit that follows is empty.
GetPedido(s) ==
    /\ sess[s].pc = "queried"
    /\ sess' = [sess EXCEPT ![s] =
                   IF sess[s].pedido_id \in DOMAIN pedidos
                   THEN [@ EXCEPT !.pc = "got", !.p = pedidos[sess[s].pedido_id]]
                   ELSE [@ EXCEPT !.pc = "done"]]
    /\ UNCHANGED <<dbVars, idemVars, hookVars>>

\* The assignments of recompute_pedido_enviado and the second db.commit().
CommitPedido(s) ==
    /\ sess[s].pc = "got"
    /\ LET r == sess[s]
           new == Recompute(r.q, r.p, _now_iso)
       IN  IF new = r.p
           THEN \* nothing to flush
                /\ sess' = [sess EXCEPT ![s].pc = "done"]
                /\ UNCHANGED pedidos
           ELSE IF r.pedido_id \notin DOMAIN pedidos
           THEN \* StaleDataError
                /\ sess' = [sess EXCEPT ![s].pc = "failed"]
                /\ UNCHANGED pedidos
           ELSE /\ pedidos' = [pedidos EXCEPT ![r.pedido_id] = ColUpdate(@, r.p, new)]
                /\ sess' = [sess EXCEPT ![s].pc = "done"]
    /\ UNCHANGED <<itens, nextPedidoId, nextItemId, clock, rt, ret, idemVars, hookVars>>

\* The store SpecConc starts from: MaxPedidos orders and MaxItens items as
\* the handlers of Spec leave them (stamps of time 1), and a later time.
InitConc ==
    /\ \E owner \in [ItemIds -> PedidoIds], sent \in [ItemIds -> BOOLEAN] :
          /\ itens = [i \in ItemIds |->
                         [pedido_id    |-> owner[i],
                          nome_produto |-> "jogoA",
                          enviado      |-> sent[i],
                          enviado_em   |-> IF sent[i] THEN 1 ELSE None]]
          /\ pedidos = [p \in PedidoIds |->
                           LET mine == {i \in ItemIds : owner[i] = p}
                               all  == mine # {} /\ \A i \in mine : sent[i]
                           IN  [enviado |-> all,
                                enviado_em |-> IF all THEN 1 ELSE None]]
    /\ nextPedidoId = MaxPedidos + 1
    /\ nextItemId = MaxItens + 1
    /\ clock = MaxClock
    /\ rt = NoRT
    /\ ret = NoRet
    /\ sess = [s \in Sessions |-> Idle]
    /\ InitIdemIdle
    \* DATABASE_URL selects PostgreSQL, which enforces foreign keys, or
    \* SQLite, which database.py opens without PRAGMA foreign_keys
    /\ env \in [impl : {"main"}, secret : {0}, token : {TRUE}, fk : BOOLEAN]
    /\ hooks = << >>
    /\ dispatches = << >>
    /\ cbs = << >>
    /\ marks = << >>
    /\ fin = << >>
    /\ fout = << >>

NextConc ==
    \/ \E s \in Sessions : BeginToggle(s)
    \/ \E s \in Sessions : BeginAtualizar(s)
    \/ \E s \in Sessions : BeginCriar(s)
    \/ \E s \in Sessions : BeginExcluir(s)
    \/ \E s \in Sessions : BeginExcluirPedido(s)
    \/ \E s \in Sessions : LoadItensDoPedido(s)
    \/ \E s \in Sessions : CommitExcluirPedido(s)
    \/ \E s \in Sessions : CommitItem(s)
    \/ \E s \in Sessions : RefreshItem(s)
    \/ \E s \in Sessions : QueryItensStep(s)
    \/ \E s \in Sessions : GetPedido(s)
    \/ \E s \in Sessions : CommitPedido(s)

SpecConc == InitConc /\ [][NextConc]_vars

----------------------------------------------------------------------------
(* SpecIdem: POST /fulfillment/create.  A process serves the route with    *)
(* main.fulfillment_create or with the router of fullfillments.py; its     *)
(* environment (N8N_DRY_RUN, N8N_WEBHOOK_URL, N8N_HMAC_SECRET) is read     *)
(* once at import.  Keys are strings, modelled as sequences of characters. *)

MaxReqs == 3

ReqIds == 1..MaxReqs

\* body.get("idempotency_key") as sent by callers; <<>> is a missing or
\* empty (falsy) value.
RawKeys == {<< >>, <<"a">>, <<" ", "a">>, <<"b">>}

\* What the outbound call to the automation engine comes to.
Outcomes == {"2xx", "non2xx", "unreachable"}

\* str(uuid.uuid4()) of request r: a token no other request and no caller has.
uuid4(r) == [i \in 1..r |-> "u"]

RECURSIVE lstrip(_)
lstrip(s) == IF s # << >> /\ Head(s) = " " THEN lstrip(Tail(s)) ELSE s

RECURSIVE rstrip(_)
rstrip(s) ==
    IF s # << >> /\ s[Len(s)] = " " THEN rstrip(SubSeq(s, 1, Len(s) - 1)) ELSE s

\* str.strip()
strip(s) == rstrip(lstrip(s))

\* body["idempotency_key"] = body.get("idempotency_key") or str(uuid.uuid4())
idempotency_key(raw, r) == IF raw # << >> THEN raw ELSE uuid4(r)

\* main.py: idem_key = str(body["idempotency_key"]).strip()
idem_key(raw, r) == strip(idempotency_key(raw, r))

\* 200 <= code < 300 / r.is_success
is_success(outcome) == outcome = "2xx"

\* if 200 <= code < 300: _IDEM_CACHE.add(idem_key)
MarkBugNever(cache, key, outcome) == cache

MarkBugAlways(cache, key, outcome) == cache \cup {key}

MarkDispatched(cache, key, outcome) ==
    IF is_success(outcome) THEN cache \cup {key} ELSE cache

\* No key: what a request has before its key is computed, and what a
\* response without the field idempotency_key carries.
NoKey == <<"none">>

\* The response bodies of the handlers.
NoResp     == [kind |-> "none", ok |-> FALSE, idempotency_key |-> NoKey]
DedupResp  == [kind |-> "dedup", ok |-> TRUE, idempotency_key |-> NoKey]
DryRunResp(key) == [kind |-> "dry_run", ok |-> TRUE, idempotency_key |-> key]
ResultResp(outcome) ==
    [kind |-> "result", ok |-> is_success(outcome), idempotency_key |-> NoKey]
ErrorResp  == [kind |-> "error", ok |-> FALSE, idempotency_key |-> NoKey]

\* A request: pc, the caller's key, the key the handler uses, and history:
\* late (its key had a 2xx call when it arrived), called (outbound calls it
\* made), resp (its response).
NewReq ==
    [pc |-> "new", raw |-> << >>, key |-> NoKey, late |-> FALSE, called |-> 0,
     resp |-> NoResp]

\* The number of outbound calls the history c records for the key k.
CountIn(c, k) == IF k \in DOMAIN c THEN c[k] ELSE 0

Count(k) == CountIn(calls, k)

\* The outbound POST carrying the key k is sent.
Called(k) == With(calls, k, Count(k) + 1)

\* Requests arrive in the order of their ids.
Arrives(r) ==
    /\ reqs[r].pc = "new"
    /\ IF r = 1 THEN TRUE ELSE reqs[r - 1].pc # "new"

\* main.fulfillment_create.  The handler has no await after req.json() and
\* _http_json blocks the event loop, so the process runs it as one step.
main_fulfillment_create(r) ==
    /\ cfg.impl = "main"
    /\ Arrives(r)
    /\ \E valid \in BOOLEAN, raw \in RawKeys, outcome \in Outcomes :
        IF ~valid
        THEN \* HTTPException(400, "JSON inválido")
             /\ reqs' = [reqs EXCEPT ![r] = [NewReq EXCEPT !.pc = "done",
                                                          !.resp = ErrorResp]]
             /\ UNCHANGED <<_IDEM_CACHE, calls, ok2xx>>
        ELSE LET key == idem_key(raw, r)
                 req == [NewReq EXCEPT !.pc = "done", !.raw = raw, !.key = key,
                                       !.late = key \in ok2xx]
             IN  IF key \in _IDEM_CACHE
                 THEN /\ reqs' = [reqs EXCEPT ![r] = [req EXCEPT !.resp = DedupResp]]
                      /\ UNCHANGED <<_IDEM_CACHE, calls, ok2xx>>
                 ELSE IF cfg.dry_run \/ ~cfg.configured
                 THEN /\ _IDEM_CACHE' = _IDEM_CACHE \cup {key}
                      /\ reqs' = [reqs EXCEPT ![r] =
                                     [req EXCEPT !.resp = DryRunResp(key)]]
                      /\ UNCHANGED <<calls, ok2xx>>
                 ELSE /\ calls' = Called(key)
                      /\ IF outcome = "unreachable"
                         THEN \* _http_json raises HTTPException(502)
                              /\ reqs' = [reqs EXCEPT ![r] =
                                             [req EXCEPT !.called = 1,
                                                         !.resp = ErrorResp]]
                              /\ UNCHANGED <<_IDEM_CACHE, ok2xx>>
                         ELSE /\ _IDEM_CACHE' = MarkDispatched(_IDEM_CACHE, key, outcome)
                              /\ ok2xx' = IF is_success(outcome)
                                          THEN ok2xx \cup {key} ELSE ok2xx
                              /\ reqs' = [reqs EXCEPT ![r] =
                                             [req EXCEPT !.called = 1,
                                                         !.resp = ResultResp(outcome)]]
    /\ UNCHANGED <<cfg, IDEM_CACHE, dbVars, concVars, hookVars>>

\* fullfillments.fulfillment_create up to `await client.post(...)`.
router_fulfillment_create(r) ==
    /\ cfg.impl = "router"
    /\ Arrives(r)
    /\ \E valid \in BOOLEAN, raw \in RawKeys :
        IF ~cfg.configured \/ ~valid
        THEN \* HTTPException(500), or req.json() raises
             /\ reqs' = [reqs EXCEPT ![r] = [NewReq EXCEPT !.pc = "done",
                                                          !.resp = ErrorResp]]
             /\ UNCHANGED calls
        ELSE LET key == idempotency_key(raw, r)
                 req == [NewReq EXCEPT !.raw = raw, !.key = key,
                                       !.late = key \in ok2xx]
             IN  IF key \in IDEM_CACHE
                 THEN /\ reqs' = [reqs EXCEPT ![r] =
                                     [req EXCEPT !.pc = "done", !.resp = DedupResp]]
                      /\ UNCHANGED calls
                 ELSE /\ reqs' = [reqs EXCEPT ![r] =
                                     [req EXCEPT !.pc = "awaiting", !.called = 1]]
                      /\ calls' = Called(key)
    /\ UNCHANGED <<cfg, _IDEM_CACHE, IDEM_CACHE, ok2xx, dbVars, concVars, hookVars>>

\* fullfillments.fulfillment_create from the completion of client.post on.
router_response(r) ==
    /\ cfg.impl = "router"
    /\ reqs[r].pc = "awaiting"
    /\ \E outcome \in Outcomes :
        IF outcome = "unreachable"
        THEN \* httpx raises: 500 from the framework
             /\ reqs' = [reqs EXCEPT ![r].pc = "done", ![r].resp = ErrorResp]
             /\ UNCHANGED <<IDEM_CACHE, ok2xx>>
        ELSE /\ IDEM_CACHE' = MarkDispatched(IDEM_CACHE, reqs[r].key, outcome)
             /\ ok2xx' = IF is_success(outcome)
                         THEN ok2xx \cup {reqs[r].key} ELSE ok2xx
             /\ reqs' = [reqs EXCEPT ![r].pc = "done",
                                     ![r].resp = ResultResp(outcome)]
    /\ UNCHANGED <<cfg, _IDEM_CACHE, calls, dbVars, concVars, hookVars>>

InitIdem ==
    /\ cfg \in [impl : {"main", "router"}, dry_run : BOOLEAN, configured : BOOLEAN]
    \* fullfillments.py does not read N8N_DRY_RUN
    /\ cfg.impl = "router" => ~cfg.dry_run
    /\ _IDEM_CACHE = {}
    /\ IDEM_CACHE = {}
    /\ reqs = [r \in ReqIds |-> NewReq]
    /\ calls = << >>
    /\ ok2xx = {}
    /\ InitDb
    /\ InitConcIdle
    /\ InitHookIdle

NextIdem ==
    \/ \E r \in ReqIds : main_fulfillment_create(r)
    \/ \E r \in ReqIds : router_fulfillment_create(r)
    \/ \E r \in ReqIds : router_response(r)

SpecIdem == InitIdem /\ [][NextIdem]_vars

----------------------------------------------------------------------------
(* Strings.  A Python str is a sequence of one-character strings.          *)

Uppercase == <<"A", "B", "C", "D", "E", "F", "G", "H", "I", "J", "K", "L", "M",
               "N", "O", "P", "Q", "R", "S", "T", "U", "V", "W", "X", "Y", "Z">>
Lowercase == <<"a", "b", "c", "d", "e", "f", "g", "h", "i", "j", "k", "l", "m",
               "n", "o", "p", "q", "r", "s", "t", "u", "v", "w", "x", "y", "z">>
Digits    == <<"0", "1", "2", "3", "4", "5", "6", "7", "8", "9">>

\* The elements of the sequence s.
Range(s) == {s[i] : i \in DOMAIN s}

\* The position of the character c in the sequence t, 0 when absent.
IndexOf(t, c) == IF c \in Range(t) THEN CHOOSE i \in DOMAIN t : t[i] = c ELSE 0

\* str.lower() and str.upper(), one character at a time.
LowerCharBugIdentity(c) == c

lower_char(c) == IF c \in Range(Uppercase) THEN Lowercase[IndexOf(Uppercase, c)] ELSE c
upper_char(c) == IF c \in Range(Lowercase) THEN Uppercase[IndexOf(Lowercase, c)] ELSE c

LowerBugIdentity(s) == s

lower(s) == [i \in DOMAIN s |-> lower_char(s[i])]
upper(s) == [i \in DOMAIN s |-> upper_char(s[i])]

\* s.startswith(prefix)
startswith(s, prefix) ==
    /\ Len(prefix) <= Len(s)
    /\ SubSeq(s, 1, Len(prefix)) = prefix

\* s.endswith(suffix)
endswith(s, suffix) ==
    /\ Len(suffix) <= Len(s)
    /\ SubSeq(s, Len(s) - Len(suffix) + 1, Len(s)) = suffix

\* s.replace(old, new) for a non-empty old: leftmost occurrences, left to
\* right, without rescanning what was inserted.
RECURSIVE replace(_, _, _)
replace(s, old, new) ==
    IF s = << >> THEN << >>
    ELSE IF startswith(s, old)
    THEN new \o replace(SubSeq(s, Len(old) + 1, Len(s)), old, new)
    ELSE <<Head(s)>> \o replace(Tail(s), old, new)

\* The position of the last occurrence of the character c in s, 0 when absent.
rfind(s, c) ==
    IF c \in Range(s) THEN CHOOSE i \in DOMAIN s :
                               s[i] = c /\ \A j \in DOMAIN s : s[j] = c => j <= i
    ELSE 0

\* The characters of s that are in the set keep, in order.
RECURSIVE filter_chars(_, _)
filter_chars(s, keep) ==
    IF s = << >> THEN << >>
    ELSE (IF Head(s) \in keep THEN <<Head(s)>> ELSE << >>)
         \o filter_chars(Tail(s), keep)

\* The characters of 7-bit ASCII the model uses.
Ascii == Range(Uppercase) \cup Range(Lowercase) \cup Range(Digits)
         \cup {" ", "@", ".", ",", ";", ":", "(", ")", "[", "]", "<", ">",
               "_", "+", "-", "/", "="}

----------------------------------------------------------------------------
(* HMAC signatures.  A digest is a sequence of bytes (two here instead of  *)
(* the 32 of SHA-256); hmac_digest is one-to-one on the secrets and bodies *)
(* of the model, as HMAC-SHA256 is taken to be.                            *)

HexDigits == <<"0", "1", "2", "3", "4", "5", "6", "7",
               "8", "9", "a", "b", "c", "d", "e", "f">>

Base64Alphabet == Uppercase \o Lowercase \o Digits \o <<"+", "/">>

\* hmac.new(secret, raw, hashlib.sha256).digest(); secret and raw are the
\* numbers that name a secret and a body.
hmac_digest(secret, raw) == <<(160 + secret) % 256, (16 * raw + 5) % 256>>

\* bytes.hex()
RECURSIVE hex(_)
hex(d) ==
    IF d = << >> THEN << >>
    ELSE <<HexDigits[(Head(d) \div 16) + 1], HexDigits[(Head(d) % 16) + 1]>>
         \o hex(Tail(d))

\* base64.b64encode of a two-byte digest: 16 bits in three sextets, the
\* last one padded with zero bits, and one "=".
b64encode(d) ==
    LET n == (d[1] * 256 + d[2]) * 4
    IN  <<Base64Alphabet[(n \div 4096) + 1],
          Base64Alphabet[((n \div 64) % 64) + 1],
          Base64Alphabet[(n % 64) + 1],
          "=">>

\* main._hmac_sign: the hexadecimal digest.
_hmac_sign(raw, secret) == hex(hmac_digest(secret, raw))

\* hmac.compare_digest on two str: TypeError unless both are ASCII.
compare_digest(a, b) ==
    IF Range(a) \cup Range(b) \subseteq Ascii
    THEN IF a = b THEN "equal" ELSE "different"
    ELSE "TypeError"

\* The verifier's verdict: "ok" lets the handler go on, 401 and 500 are the
\* status of the response that ends it.
\* main._yampi_verify_webhook; provided is the value of x-yampi-signature,
\* the empty string when the header is absent.
_yampi_verify_webhook(secret, provided, raw) ==
    IF secret = 0 THEN "ok"
    ELSE IF provided = << >> \/ provided # _hmac_sign(raw, secret) THEN "401"
    ELSE "ok"

\* backend/webhook/yampi.verify_hmac_signature; signature_header is the
\* value of X-Yampi-Signature, the empty string when the header is absent.
verify_hmac_signature(secret, signature_header, raw) ==
    IF secret = 0 THEN "ok"
    ELSE LET r == compare_digest(hex(hmac_digest(secret, raw)), signature_header)
         IN  IF r = "TypeError" THEN "500"
             ELSE IF r = "equal" THEN "ok" ELSE "401"

\* verify_yampi_hmac letting every request through when no secret is set.
VerifyYampiHmacBugOpen(secret, signature, raw) ==
    IF secret = 0 THEN "ok"
    ELSE IF signature = << >> THEN "401"
    ELSE LET r == compare_digest(b64encode(hmac_digest(secret, raw)), signature)
         IN  IF r = "TypeError" THEN "500"
             ELSE IF r = "equal" THEN "ok" ELSE "401"

\* api/yampi_webhook.verify_yampi_hmac and the test of its result;
\* signature is the value of X-Yampi-Hmac-SHA256, empty when absent.
verify_yampi_hmac(secret, signature, raw) ==
    IF secret = 0 \/ signature = << >> THEN "401"
    ELSE LET r == compare_digest(b64encode(hmac_digest(secret, raw)), signature)
         IN  IF r = "TypeError" THEN "500"
             ELSE IF r = "equal" THEN "ok" ELSE "401"

----------------------------------------------------------------------------
(* Order ingestion: main._criar_pedido_local_de_yampi and                  *)
(* backend/webhook/yampi.criar_pedido_local.  A value of the JSON payload  *)
(* is a string, Missing (the key is not there) or Null.                    *)

Missing == <<"<missing>">>
Null    == <<"<null>">>

\* bool(v) is False: None, and the empty string.
falsy(v) == v \in {Missing, Null, << >>}

\* d.get(k) or b
py_or(a, b) == IF falsy(a) THEN b ELSE a

\* str(v) of a value that d.get(k, "") returned.
str(v) == IF v = Missing THEN << >>
          ELSE IF v = Null THEN <<"N", "o", "n", "e">>
          ELSE v

paid     == <<"p", "a", "i", "d">>
approved == <<"a", "p", "p", "r", "o", "v", "e", "d">>

\* main.py: "PAID" if str(yampi_order.get("status", "")).lower() in
\* ("paid", "approved") else "PENDING"
main_status(status) ==
    IF lower(str(status)) \in {paid, approved} THEN "PAID" ELSE "PENDING"

\* webhook/yampi.py: "PAID" if (order.status or "").lower() in
\* ("paid", "approved") else "PENDING"
router_status(status) ==
    IF lower(py_or(status, << >>)) \in {paid, approved} THEN "PAID" ELSE "PENDING"

PS4 == <<"P", "S", "4">>
PS5 == <<"P", "S", "5">>
Primaria   == <<" ", "P", "r", "i", "m", "á", "r", "i", "a">>
Secundaria == <<" ", "S", "e", "c", "u", "n", "d", "á", "r", "i", "a">>

\* The dict plataformas of main._criar_pedido_local_de_yampi.
plataformas ==
    {<<PS4, "PS4">>, <<PS5, "PS5">>,
     <<PS4 \o Primaria, "PS4">>, <<PS4 \o Secundaria, "PS4s">>,
     <<PS5 \o Primaria, "PS5">>, <<PS5 \o Secundaria, "PS5s">>}

\* plataformas.get(key, default)
plataformas_get(key, default) ==
    IF \E e \in plataformas : e[1] = key
    THEN (CHOOSE e \in plataformas : e[1] = key)[2]
    ELSE default

\* main._safe_platform
_safe_platform(value) ==
    IF value \in {"PS4", "PS4s", "PS5", "PS5s"} THEN value ELSE "PS4"

MainPlataformaBugNoDefault(it) ==
    plataformas_get(strip(str(py_or(py_or(it.platform, it.variant_name), << >>))),
                    "")

\* main.py: the platform of the item it of the payload.
main_plataforma(it) ==
    _safe_platform(
        plataformas_get(strip(str(py_or(py_or(it.platform, it.variant_name), << >>))),
                        "PS5"))

\* webhook/yampi.py: the platform of the item it of the payload.
router_plataforma(it) ==
    IF startswith(upper(py_or(it.platform, << >>)), PS4) THEN "PS4"
    ELSE IF startswith(lower(py_or(it.variant_name, << >>)), lower(PS4)) THEN "PS4"
    ELSE IF startswith(lower(py_or(it.variant_name, << >>)),
                       <<"s", "e", "c", "u", "n", "d">>) THEN "PS5s"
    ELSE "PS5"

\* The status and the platform the deployed module computes.
local_status(status) ==
    IF env.impl = "router" THEN router_status(status) ELSE main_status(status)

local_plataforma(it) ==
    IF env.impl = "router" THEN router_plataforma(it) ELSE main_plataforma(it)

\* The loop over the items of the payload: crud.criar_item for each, which
\* inserts the row and recomputes the order.  t holds the two tables and
\* the next item id.
RECURSIVE criar_itens(_, _, _)
criar_itens(t, pedido_id, items) ==
    IF items = << >> THEN t
    ELSE LET row == [pedido_id    |-> pedido_id,
                     nome_produto |-> "jogoA",
                     plataforma   |-> local_plataforma(Head(items)),
                     enviado      |-> FALSE,
                     enviado_em   |-> None]
             I1 == With(t.itens, t.nextItemId, row)
         IN  criar_itens([pedidos    |-> recompute_pedido_enviado(
                                             t.pedidos, I1, pedido_id, _now_iso),
                          itens      |-> I1,
                          nextItemId |-> t.nextItemId + 1],
                         pedido_id, Tail(items))

\* crud.criar_pedido for the order of the payload and then its items; the
\* new order gets the id nextPedidoId.
criar_pedido_local(order) ==
    criar_itens([pedidos    |-> With(pedidos, nextPedidoId,
                                     [codigo     |-> order.code,
                                      status     |-> local_status(order.status),
                                      enviado    |-> FALSE,
                                      enviado_em |-> None]),
                 itens      |-> itens,
                 nextItemId |-> nextItemId],
                nextPedidoId, order.items)

----------------------------------------------------------------------------
(* SpecHook: the endpoints the two peers call.  The storefront posts to    *)
(* /yampi/webhook, served by main.py, by the router of                     *)
(* backend/webhook/yampi.py or by the forwarder of api/yampi_webhook.py    *)
(* (env.impl); the automation engine posts to /fulfillment/status of       *)
(* main.py.  Each handler is one step: main.py and the router block in     *)
(* their outbound calls, and the forwarder shares no state.                *)
(*   env.secret      YAMPI_WEBHOOK_SECRET, 0 when it is not set            *)
(*   env.token       YAMPI_API_TOKEN is set                                *)
(*   cfg.configured  N8N_WEBHOOK_URL and N8N_HMAC_SECRET are set           *)

MaxHooks == 2

\* The numbers that name the secrets: the storefront's, a stranger's, and
\* the automation engine's N8N_HMAC_SECRET.
YampiSecret == 1
OtherSecret == 2
N8nSecret   == 3

pending   == <<"p", "e", "n", "d", "i", "n", "g">>
delivered == <<"d", "e", "l", "i", "v", "e", "r", "e", "d">>
failed    == <<"f", "a", "i", "l", "e", "d">>

OneItem == <<[platform |-> PS5, variant_name |-> Missing]>>

\* The raw bodies the storefront sends: n names the bytes, json tells
\* whether they parse and order whether the payload has an `order`; every
\* order carries an id, a customer with a valid e-mail address and items
\* with a sku.
HookBodies ==
    {[n |-> 1, json |-> TRUE, event |-> "order.paid", order |-> TRUE, code |-> "Y1",
      status |-> paid, items |-> OneItem],
     [n |-> 2, json |-> TRUE, event |-> "order.created", order |-> TRUE, code |-> "Y1",
      status |-> paid, items |-> OneItem],
     [n |-> 3, json |-> TRUE, event |-> "order.created", order |-> TRUE, code |-> "Y2",
      status |-> pending, items |-> OneItem],
     [n |-> 4, json |-> FALSE, event |-> "", order |-> FALSE, code |-> "",
      status |-> Missing, items |-> << >>],
     [n |-> 13, json |-> TRUE, event |-> "order.paid", order |-> FALSE, code |-> "",
      status |-> Missing, items |-> << >>]}

\* The values of the signature header a request with the body raw may
\* carry: none, the HMAC of the body in hexadecimal and in base64, the HMAC
\* under another secret, the HMAC of another body, and a value with a
\* character outside ASCII.
Signatures(secret, raw) ==
    {<< >>,
     hex(hmac_digest(secret, raw)),
     b64encode(hmac_digest(secret, raw)),
     hex(hmac_digest(OtherSecret, raw)),
     b64encode(hmac_digest(secret, raw + 1)),
     <<"é">>}

\* The paid order is delivered under every signature, the other bodies
\* unsigned and under the two valid encodings.
HookDeliveries ==
    UNION {{[body |-> b, sig |-> s] :
               s \in IF b.n = 1
                     THEN Signatures(YampiSecret, b.n)
                     ELSE {<< >>, hex(hmac_digest(YampiSecret, b.n)),
                           b64encode(hmac_digest(YampiSecret, b.n))}} :
           b \in HookBodies}

Y1 == <<"Y", "1">>

\* The status callbacks the automation engine sends: n names the bytes,
\* json tells whether they parse.
CallbackBodies ==
    {[n |-> 5, json |-> TRUE, order_id |-> Y1, status |-> delivered],
     [n |-> 6, json |-> TRUE, order_id |-> Y1, status |-> failed],
     [n |-> 7, json |-> FALSE, order_id |-> << >>, status |-> Missing],
     [n |-> 8, json |-> TRUE, order_id |-> Y1, status |-> upper(delivered)],
     [n |-> 9, json |-> TRUE, order_id |-> Y1,
      status |-> <<" ">> \o delivered \o <<" ">>],
     [n |-> 10, json |-> TRUE, order_id |-> <<" ">>, status |-> delivered],
     [n |-> 11, json |-> TRUE, order_id |-> Null, status |-> delivered],
     [n |-> 12, json |-> TRUE, order_id |-> Missing, status |-> delivered]}

Callbacks ==
    UNION {{[body |-> b, sig |-> s] :
               s \in IF b.n = 5
                     THEN {<< >>,
                           hex(hmac_digest(N8nSecret, b.n)),
                           b64encode(hmac_digest(N8nSecret, b.n)),
                           hex(hmac_digest(OtherSecret, b.n))}
                     ELSE {<< >>, hex(hmac_digest(N8nSecret, b.n))}} :
           b \in CallbackBodies}

\* The requests handled so far.
Handled == Len(hooks) + Len(cbs)

\* main.yampi_webhook in one transaction that a failed dispatch rolls back.
YampiWebhookBugRollback(d, selfcall, outcome) ==
    LET b        == d.body
        verdict  == _yampi_verify_webhook(env.secret, d.sig, b.n)
        accepted == verdict = "ok" /\ b.json
        creates  == accepted /\ b.event \in {"order.created", "order.paid"}
        \* order = payload.get("order") or {}, and existing = None: the
        \* order is created on every delivery
        t        == criar_pedido_local(b)
        status   == lower(str(b.status))
        fires    == creates /\ (b.event = "order.paid" \/ status \in {paid, approved})
        served   == fires /\ selfcall = "served"
        \* the body carries no idempotency_key: fulfillment_create draws one
        key      == uuid4(Handled + 1)
        outbound == served /\ ~(cfg.dry_run \/ ~cfg.configured)
        reaches  == outbound /\ outcome # "unreachable"
        resp     == IF verdict # "ok" THEN verdict
                    ELSE IF ~b.json THEN "400"
                    ELSE IF fires /\ ~served THEN "502"
                    ELSE "200"
    IN  /\ hooks' = Append(hooks, [d |-> d, verdict |-> verdict, resp |-> resp,
                                   parsed |-> verdict = "ok",
                                   fired  |-> fires,
                                   pedido |-> IF creates THEN nextPedidoId ELSE 0,
                                   item0  |-> nextItemId,
                                   called |-> reaches])
        /\ IF creates /\ (~fires \/ (reaches /\ outcome = "2xx"))
           THEN /\ pedidos' = t.pedidos
                /\ itens' = t.itens
                /\ nextItemId' = t.nextItemId
                /\ nextPedidoId' = nextPedidoId + 1
           ELSE UNCHANGED <<pedidos, itens, nextItemId, nextPedidoId>>
        /\ dispatches' = IF reaches
                         THEN With(dispatches, b.code, CountIn(dispatches, b.code) + 1)
                         ELSE dispatches
        /\ _IDEM_CACHE' = IF served /\ ~outbound THEN _IDEM_CACHE \cup {key}
                          ELSE IF outbound
                          THEN MarkDispatched(_IDEM_CACHE, key, outcome)
                          ELSE _IDEM_CACHE

\* main.yampi_webhook with _criar_pedido_local_de_yampi and
\* _disparar_fulfillment_n8n.  selfcall is the fate of the POST to
\* http://127.0.0.1:8000/fulfillment/create: served by a worker of the
\* application, or URLError; outcome is the automation engine's answer to
\* the call fulfillment_create then makes.
yampi_webhook_main(d, selfcall, outcome) ==
    LET b        == d.body
        verdict  == _yampi_verify_webhook(env.secret, d.sig, b.n)
        accepted == verdict = "ok" /\ b.json
        creates  == accepted /\ b.event \in {"order.created", "order.paid"}
        \* order = payload.get("order") or {}, and existing = None: the
        \* order is created on every delivery
        t        == criar_pedido_local(b)
        status   == lower(str(b.status))
        fires    == creates /\ (b.event = "order.paid" \/ status \in {paid, approved})
        served   == fires /\ selfcall = "served"
        \* the body carries no idempotency_key: fulfillment_create draws one
        key      == uuid4(Handled + 1)
        outbound == served /\ ~(cfg.dry_run \/ ~cfg.configured)
        reaches  == outbound /\ outcome # "unreachable"
        resp     == IF verdict # "ok" THEN verdict
                    ELSE IF ~b.json THEN "400"
                    ELSE IF fires /\ ~served THEN "502"
                    ELSE "200"
    IN  /\ hooks' = Append(hooks, [d |-> d, verdict |-> verdict, resp |-> resp,
                                   parsed |-> verdict = "ok",
                                   fired  |-> fires,
                                   pedido |-> IF creates THEN nextPedidoId ELSE 0,
                                   item0  |-> nextItemId,
                                   called |-> reaches])
        /\ IF creates
           THEN /\ pedidos' = t.pedidos
                /\ itens' = t.itens
                /\ nextItemId' = t.nextItemId
                /\ nextPedidoId' = nextPedidoId + 1
           ELSE UNCHANGED <<pedidos, itens, nextItemId, nextPedidoId>>
        /\ dispatches' = IF reaches
                         THEN With(dispatches, b.code, CountIn(dispatches, b.code) + 1)
                         ELSE dispatches
        /\ _IDEM_CACHE' = IF served /\ ~outbound THEN _IDEM_CACHE \cup {key}
                          ELSE IF outbound
                          THEN MarkDispatched(_IDEM_CACHE, key, outcome)
                          ELSE _IDEM_CACHE

\* backend/webhook/yampi.yampi_webhook with criar_pedido_local.
yampi_webhook_router(d) ==
    LET b       == d.body
        verdict == verify_hmac_signature(env.secret, d.sig, b.n)
        \* if not order_data: 400
        creates == verdict = "ok" /\ b.json /\ b.order
                   /\ b.event \in {"order.created", "order.paid"}
        t       == criar_pedido_local(b)
        resp    == IF verdict # "ok" THEN verdict
                   ELSE IF ~b.json \/ ~b.order THEN "400"
                   ELSE "200"
    IN  /\ hooks' = Append(hooks, [d |-> d, verdict |-> verdict, resp |-> resp,
                                   parsed |-> verdict = "ok",
                                   fired  |-> FALSE,
                                   pedido |-> IF creates THEN nextPedidoId ELSE 0,
                                   item0  |-> nextItemId,
                                   called |-> FALSE])
        /\ IF creates
           THEN /\ pedidos' = t.pedidos
                /\ itens' = t.itens
                /\ nextItemId' = t.nextItemId
                /\ nextPedidoId' = nextPedidoId + 1
           ELSE UNCHANGED <<pedidos, itens, nextItemId, nextPedidoId>>
        /\ UNCHANGED <<dispatches, _IDEM_CACHE>>

\* api/yampi_webhook.yampi_webhook: verify, parse, forward to the
\* automation engine; outcome is the engine's answer to the forward, where
\* "non2xx" stands for a status of 400 or more and "3xx" for a redirect,
\* which the client does not follow.
yampi_webhook_forwarder(d, outcome) ==
    LET b        == d.body
        \* N8N_WEBHOOK_URL is tested before the signature
        verdict  == IF ~cfg.configured THEN "none"
                    ELSE verify_yampi_hmac(env.secret, d.sig, b.n)
        forwards == verdict = "ok" /\ b.json
        reaches  == forwards /\ outcome # "unreachable"
        resp     == IF verdict = "none" THEN "500"
                    ELSE IF verdict # "ok" THEN verdict
                    ELSE IF ~b.json THEN "400"
                    \* except Exception: 500
                    ELSE IF outcome = "unreachable" THEN "500"
                    \* if resp.status_code >= 400: 502
                    ELSE IF outcome = "non2xx" THEN "502"
                    ELSE "200"
    IN  /\ hooks' = Append(hooks, [d |-> d, verdict |-> verdict, resp |-> resp,
                                   parsed |-> verdict = "ok",
                                   fired  |-> forwards,
                                   pedido |-> 0,
                                   item0  |-> nextItemId,
                                   called |-> reaches])
        /\ dispatches' = IF reaches
                         THEN With(dispatches, b.code, CountIn(dispatches, b.code) + 1)
                         ELSE dispatches
        /\ UNCHANGED <<pedidos, itens, nextItemId, nextPedidoId, _IDEM_CACHE>>

YampiWebhook ==
    /\ Handled < MaxHooks
    /\ \E d \in HookDeliveries :
          \/ env.impl = "main"
             /\ \E selfcall \in {"served", "unreachable"}, outcome \in Outcomes :
                   yampi_webhook_main(d, selfcall, outcome)
          \/ env.impl = "router" /\ yampi_webhook_router(d)
          \/ env.impl = "forwarder"
             /\ \E outcome \in Outcomes \cup {"3xx"} :
                   yampi_webhook_forwarder(d, outcome)
    /\ UNCHANGED <<clock, rt, ret, concVars, cfg, IDEM_CACHE, reqs, calls, ok2xx,
                   env, cbs, marks, fin, fout>>

\* main.fulfillment_status with _yampi_mark_delivered; outcome is the
\* storefront's answer to PUT /orders/{order_id}.
fulfillment_status(c, outcome) ==
    LET b       == c.body
        verdict == IF ~cfg.configured THEN "none"
                   ELSE IF c.sig # _hmac_sign(b.n, N8nSecret) THEN "401"
                   ELSE "ok"
        order_id == strip(str(b.order_id))
        status   == lower(strip(str(b.status)))
        wanted  == verdict = "ok" /\ b.json
                   /\ order_id # << >>
                   /\ status = delivered
        \* _yampi_auth_headers raises 500 without a token, _http_json raises
        \* 502 on URLError, and a non-2xx answer is printed
        resp    == IF verdict = "none" THEN "500"
                   ELSE IF verdict # "ok" THEN verdict
                   ELSE IF ~b.json THEN "500"
                   ELSE IF wanted /\ ~env.token THEN "500"
                   ELSE IF wanted /\ outcome = "unreachable" THEN "502"
                   ELSE "200"
        marked  == wanted /\ env.token /\ outcome # "unreachable"
    IN  /\ cbs' = Append(cbs, [c |-> c, verdict |-> verdict, resp |-> resp,
                               wanted |-> wanted,
                               outcome |-> IF wanted /\ env.token THEN outcome
                                           ELSE "none",
                               marked |-> marked])
        /\ marks' = IF marked THEN Append(marks, order_id) ELSE marks

FulfillmentStatus ==
    /\ env.impl = "main"
    /\ Handled < MaxHooks
    /\ \E c \in Callbacks, outcome \in Outcomes : fulfillment_status(c, outcome)
    /\ UNCHANGED <<dbVars, concVars, idemVars, env, hooks, dispatches,
                   fin, fout>>

InitHook ==
    /\ env \in [impl : {"main", "router", "forwarder"}, secret : {0, YampiSecret},
                token : BOOLEAN, fk : {TRUE}]
    /\ cfg \in [impl : {"main"}, dry_run : {FALSE}, configured : BOOLEAN]
    \* only main.py reads YAMPI_API_TOKEN; the router reads no N8N_* variable
    /\ env.impl # "main" => env.token
    /\ env.impl = "router" => cfg.configured
    /\ hooks = << >>
    /\ dispatches = << >>
    /\ cbs = << >>
    /\ marks = << >>
    /\ fin = << >>
    /\ fout = << >>
    /\ _IDEM_CACHE = {}
    /\ IDEM_CACHE = {}
    /\ reqs = << >>
    /\ calls = << >>
    /\ ok2xx = {}
    /\ InitDb
    /\ InitConcIdle

NextHook ==
    \/ YampiWebhook
    \/ FulfillmentStatus

SpecHook == InitHook /\ [][NextHook]_vars

----------------------------------------------------------------------------
(* SpecRelay: the forwarder of api/yampi_webhook.py alone, with and        *)
(* without its secret and its N8N_WEBHOOK_URL.                             *)

InitRelay == InitHook /\ env.impl = "forwarder"

NextRelay == YampiWebhook

SpecRelay == InitRelay /\ [][NextRelay]_vars

----------------------------------------------------------------------------
(* SpecIngest: the ingestion function applied to orders drawn from a       *)
(* bounded set of payloads, in main.py and in backend/webhook/yampi.py.    *)

MaxIngest == 2

Xbox == <<"X", "b", "o", "x">>

\* The values of order.status.
StatusInputs ==
    {Missing, Null, << >>, paid, approved, pending,
     <<"P", "A", "I", "D">>, <<"P", "a", "i", "d">>,
     <<"A", "p", "p", "r", "o", "v", "e", "d">>,
     <<" ">> \o paid, <<"p", "a", "i">>}

\* The values of item.platform and item.variant_name.
PlatformInputs ==
    {Missing, Null, << >>, PS4, PS5, lower(PS4), Xbox,
     <<" ">> \o PS4 \o <<" ">>,
     PS4 \o Primaria, PS4 \o Secundaria, PS5 \o Primaria, PS5 \o Secundaria}

VariantInputs ==
    {Missing, PS4, PS5 \o Secundaria, Tail(Secundaria)}

\* Every platform string without a variant name, and every variant name
\* under a platform that is missing, null or empty.
ItemInputs ==
    {[platform |-> p, variant_name |-> Missing] : p \in PlatformInputs}
    \cup
    {[platform |-> p, variant_name |-> v] :
        p \in {Missing, Null, << >>}, v \in VariantInputs}
    \cup
    {[platform |-> Xbox, variant_name |-> PS4]}

\* The orders ingested: every status with one plain item, every item under
\* a paid order, an order without items and one with two.
IngestOrders ==
    {[n |-> 1, json |-> TRUE, event |-> "order.created", code |-> "Y1",
      status |-> s, items |-> OneItem] : s \in StatusInputs}
    \cup
    {[n |-> 1, json |-> TRUE, event |-> "order.created", code |-> "Y1",
      status |-> paid, items |-> <<it>>] : it \in ItemInputs}
    \cup
    {[n |-> 1, json |-> TRUE, event |-> "order.created", code |-> "Y1",
      status |-> paid, items |-> its] :
         its \in {<< >>,
                  <<[platform |-> PS4 \o Secundaria, variant_name |-> Missing],
                    [platform |-> Xbox, variant_name |-> PS4]>>}}

\* _criar_pedido_local_de_yampi / criar_pedido_local applied to one order.
Ingest ==
    /\ Len(hooks) < MaxIngest
    /\ \E order \in IngestOrders :
          LET t == criar_pedido_local(order) IN
          /\ pedidos' = t.pedidos
          /\ itens' = t.itens
          /\ nextItemId' = t.nextItemId
          /\ nextPedidoId' = nextPedidoId + 1
          /\ hooks' = Append(hooks, [d |-> [body |-> order, sig |-> << >>],
                                     verdict |-> "ok", resp |-> "200",
                                     parsed |-> TRUE,
                                     pedido |-> nextPedidoId,
                                     item0  |-> nextItemId,
                                     called |-> FALSE])
    /\ UNCHANGED <<clock, rt, ret, concVars, idemVars, env, dispatches, cbs, marks,
                   fin, fout>>

InitIngest ==
    /\ env \in [impl : {"main", "router"}, secret : {0}, token : {TRUE}, fk : {TRUE}]
    /\ hooks = << >>
    /\ dispatches = << >>
    /\ cbs = << >>
    /\ marks = << >>
    /\ fin = << >>
    /\ fout = << >>
    /\ InitDb
    /\ InitConcIdle
    /\ InitIdemIdle

NextIngest == Ingest

SpecIngest == InitIngest /\ [][NextIngest]_vars

----------------------------------------------------------------------------
(* SpecNorm: _normalize_email_for_response applied to a string and then to *)
(* its own results.                                                        *)

MaxLen == 5
MaxApply == 2

FALLBACK == <<"n", "o", "-", "r", "e", "p", "l", "y", "@",
              "z", "i", "o", "n", ".", "g", "a", "m", "e", "s">>

no_reply == SubSeq(FALLBACK, 1, 8)

zion_games == SubSeq(FALLBACK, 10, 19)

mailto == <<"m", "a", "i", "l", "t", "o", ":">>

reserved_roots ==
    {<<"l", "o", "c", "a", "l", "h", "o", "s", "t">>,
     <<"l", "o", "c", "a", "l">>,
     <<"e", "x", "a", "m", "p", "l", "e">>,
     <<"i", "n", "v", "a", "l", "i", "d">>,
     <<"t", "e", "s", "t">>}

\* The character class of the local part with "@" let through.
LocalCharsBugKeepAt == Range(Uppercase) \cup Range(Lowercase) \cup Range(Digits)
                       \cup {".", "_", "+", "-", "@"}

\* The character class [A-Za-z0-9._+-] of the local part.
LocalChars == Range(Uppercase) \cup Range(Lowercase) \cup Range(Digits)
              \cup {".", "_", "+", "-"}

_normalize_email_for_response(value) ==
    LET s0 == strip(value)
        s1 == IF startswith(lower(s0), mailto)
              THEN strip(SubSeq(s0, 8, Len(s0))) ELSE s0
        s2 == replace(s1, <<"(", "a", "t", ")">>, <<"@">>)
        s3 == replace(s2, <<"[", "a", "t", "]">>, <<"@">>)
        s4 == replace(s3, <<" ", "a", "t", " ">>, <<"@">>)
        s  == filter_chars(s4, Range(s4) \ {" ", ",", ";", "<", ">"})
        at == rfind(s, "@")
        local0  == SubSeq(s, 1, at - 1)
        local1  == IF local0 = << >> THEN no_reply ELSE local0
        domain0 == lower(SubSeq(s, at + 1, Len(s)))
        domain1 == IF endswith(domain0, <<".", "l", "o", "c", "a", "l">>)
                      \/ domain0 \in reserved_roots
                   THEN zion_games ELSE domain0
        domain  == IF "." \notin Range(domain1)
                   THEN domain1 \o <<".", "c", "o", "m">> ELSE domain1
        local2  == filter_chars(local1, LocalChars)
        local   == IF local2 = << >> THEN no_reply ELSE local2
    IN  IF at = 0 THEN FALLBACK ELSE local \o <<"@">> \o domain

\* The characters the inputs are made of.
NormAlphabet == {"a", "T", "@", ".", " ", "(", ")"}

\* The inputs the specification names.
NormExamples ==
    {<<"j", "o", "h", "n", "(", "a", "t", ")", "e", "x", "a", "m", "p", "l", "e">>,
     <<" ", "J", "o", "h", "n", ".", "D", "o", "e", "@",
       "L", "O", "C", "A", "L", "H", "O", "S", "T", " ">>,
     <<"n", "o", "-", "a", "t", "-", "s", "i", "g", "n">>,
     <<"N", "a", "m", "e", " ", "<", "f", "o", "o", "@", "b", "a", "r", ">">>,
     <<"a", "[", "a", "t", "]", "b", ",", "c">>}

NormInputs ==
    UNION {[1..k -> NormAlphabet] : k \in 0..MaxLen} \cup NormExamples

\* One more application: to the input first, then to the last result.
Normalize ==
    /\ Len(fout) < MaxApply
    /\ fout' = Append(fout, _normalize_email_for_response(
                               IF fout = << >> THEN fin ELSE fout[Len(fout)]))
    /\ UNCHANGED <<dbVars, concVars, idemVars, env, hooks, dispatches, cbs, marks, fin>>

InitNorm ==
    /\ fin \in NormInputs
    /\ fout = << >>
    /\ env = [impl |-> "main", secret |-> 0, token |-> TRUE, fk |-> TRUE]
    /\ hooks = << >>
    /\ dispatches = << >>
    /\ cbs = << >>
    /\ marks = << >>
    /\ InitDb
    /\ InitConcIdle
    /\ InitIdemIdle

NextNorm == Normalize

SpecNorm == InitNorm /\ [][NextNorm]_vars

----------------------------------------------------------------------------
(* SpecAddr: _normalize_email_for_response applied to the short strings    *)
(* over the characters that steer it ("@", ".", a space, a letter and a    *)
(* character the local part does not admit) and to longer examples.        *)

MaxAddrLen == 4

AddrAlphabet == {"a", "@", ".", " ", "("}

AddrExamples ==
    NormExamples \cup
    {<<"a", "@", "t", "e", "s", "t">>,
     <<"a", "@", "b", ".", "l", "o", "c", "a", "l">>,
     <<"m", "a", "i", "l", "t", "o", ":", "a", "@", "b">>,
     <<"a", "@", "b", "@", "E", "x", "a", "m", "p", "l", "e">>}

AddrInputs ==
    UNION {[1..k -> AddrAlphabet] : k \in 0..MaxAddrLen} \cup AddrExamples

InitAddr ==
    /\ fin \in AddrInputs
    /\ fout = << >>
    /\ env = [impl |-> "main", secret |-> 0, token |-> TRUE, fk |-> TRUE]
    /\ hooks = << >>
    /\ dispatches = << >>
    /\ cbs = << >>
    /\ marks = << >>
    /\ InitDb
    /\ InitConcIdle
    /\ InitIdemIdle

NextAddr == Normalize

SpecAddr == InitAddr /\ [][NextAddr]_vars

----------------------------------------------------------------------------
(* SpecCompare: the signature comparisons of the inbound checks and the    *)
(* work each does before it answers, counted in characters compared.       *)

MaxSigLen == 4

\* a != b on two str: the lengths are compared first, then the characters
\* up to the first that differs.
str_ne_steps(a, b) ==
    IF Len(a) # Len(b) THEN 0
    ELSE LET diff == {i \in DOMAIN a : a[i] # b[i]}
         IN  IF diff = {} THEN Len(a)
             ELSE CHOOSE i \in diff : \A j \in diff : i <= j

\* hmac.compare_digest(a, b): the loop runs over the length of b whatever
\* the characters are.
compare_digest_steps(a, b) == Len(b)

\* The comparison of each inbound check: its verdict and its steps.
\* main._yampi_verify_webhook: not provided or provided != expected
main_webhook_check(secret, provided, raw) ==
    [check   |-> "webhook",
     verdict |-> _yampi_verify_webhook(secret, provided, raw),
     steps   |-> IF provided = << >> THEN 0
                 ELSE str_ne_steps(provided, _hmac_sign(raw, secret))]

\* backend/webhook/yampi.verify_hmac_signature
router_webhook_check(secret, signature_header, raw) ==
    [check   |-> "webhook",
     verdict |-> verify_hmac_signature(secret, signature_header, raw),
     steps   |-> compare_digest_steps(hex(hmac_digest(secret, raw)),
                                      signature_header)]

\* api/yampi_webhook.verify_yampi_hmac
forwarder_webhook_check(secret, signature, raw) ==
    [check   |-> "webhook",
     verdict |-> verify_yampi_hmac(secret, signature, raw),
     steps   |-> IF signature = << >> THEN 0
                 ELSE compare_digest_steps(b64encode(hmac_digest(secret, raw)),
                                           signature)]

\* main.fulfillment_status: provided != expected
callback_check(provided, raw) ==
    [check   |-> "callback",
     verdict |-> IF provided # _hmac_sign(raw, N8nSecret) THEN "401" ELSE "ok",
     steps   |-> str_ne_steps(provided, _hmac_sign(raw, N8nSecret))]

webhook_check(provided) ==
    IF env.impl = "main" THEN main_webhook_check(env.secret, provided, 1)
    ELSE IF env.impl = "router" THEN router_webhook_check(env.secret, provided, 1)
    ELSE forwarder_webhook_check(env.secret, provided, 1)

\* The characters of the claimed signatures: those of the two hexadecimal
\* digests and one more.
SigAlphabet == Range(_hmac_sign(1, YampiSecret)) \cup Range(_hmac_sign(1, N8nSecret))
               \cup {"0"}

\* The claimed signatures: every string up to the length of a digest, and
\* the base64 signature the storefront computes.
ClaimedSignatures ==
    UNION {[1..k -> SigAlphabet] : k \in 0..MaxSigLen}
    \cup {b64encode(hmac_digest(YampiSecret, 1))}

\* A request to /yampi/webhook with the body 1 and the signature fin.
CheckWebhook ==
    /\ \A i \in DOMAIN fout : fout[i].check # "webhook"
    /\ fout' = Append(fout, webhook_check(fin))
    /\ UNCHANGED <<dbVars, concVars, idemVars, env, hooks, dispatches, cbs, marks, fin>>

\* A request to /fulfillment/status with the body 1 and the signature fin.
CheckCallback ==
    /\ env.impl = "main"
    /\ \A i \in DOMAIN fout : fout[i].check # "callback"
    /\ fout' = Append(fout, callback_check(fin, 1))
    /\ UNCHANGED <<dbVars, concVars, idemVars, env, hooks, dispatches, cbs, marks, fin>>

InitCompare ==
    /\ fin \in ClaimedSignatures
    /\ fout = << >>
    /\ env \in [impl : {"main", "router", "forwarder"}, secret : {YampiSecret},
                token : {TRUE}, fk : {TRUE}]
    /\ hooks = << >>
    /\ dispatches = << >>
    /\ cbs = << >>
    /\ marks = << >>
    /\ InitDb
    /\ InitConcIdle
    /\ InitIdemIdle

NextCompare ==
    \/ CheckWebhook
    \/ CheckCallback

SpecCompare == InitCompare /\ [][NextCompare]_vars

----------------------------------------------------------------------------
(* SpecGroup: crud.agrupar_pedidos_por_codigo applied to a table of orders *)
(* whose external codes are drawn from a bounded set.                      *)

MaxGroupPedidos == 3

\* The label of the orders without a code: "(sem código)".
sem_codigo == <<"(", "s", "e", "m", " ", "c", "ó", "d", "i", "g", "o", ")">>

\* ord(c) of the characters the codes are made of.
ord(c) ==
    CASE c = " " -> 32  [] c = "(" -> 40  [] c = ")" -> 41
      [] c = "A" -> 65  [] c = "B" -> 66
      [] c = "c" -> 99  [] c = "d" -> 100 [] c = "e" -> 101 [] c = "g" -> 103
      [] c = "i" -> 105 [] c = "m" -> 109 [] c = "o" -> 111 [] c = "s" -> 115
      [] c = "ó" -> 243

\* a < b of two Python strings: lexicographic by code point.
RECURSIVE str_lt(_, _)
str_lt(a, b) ==
    IF b = << >> THEN FALSE
    ELSE IF a = << >> THEN TRUE
    ELSE IF Head(a) = Head(b) THEN str_lt(Tail(a), Tail(b))
    ELSE ord(Head(a)) < ord(Head(b))

\* sorted(keys): the strings of the set S in ascending order.
RECURSIVE sorted(_)
sorted(S) ==
    IF S = {} THEN << >>
    ELSE LET m == CHOOSE x \in S : \A y \in S \ {x} : str_lt(x, y)
         IN  <<m>> \o sorted(S \ {m})

\* ORDER BY pedidos.codigo ASC, pedidos.id ASC: PostgreSQL puts the NULL
\* codes last, SQLite first.
codigo_asc(p, q) ==
    LET a == pedidos[p].codigo
        b == pedidos[q].codigo
    IN  IF a = b THEN p < q
        ELSE IF a = Null THEN ~env.fk
        ELSE IF b = Null THEN env.fk
        ELSE str_lt(a, b)

\* The order ids of the set S in the order of the ORDER BY clause.
RECURSIVE order_by(_)
order_by(S) ==
    IF S = {} THEN << >>
    ELSE LET m == CHOOSE x \in S : \A y \in S \ {x} : codigo_asc(x, y)
         IN  <<m>> \o order_by(S \ {m})

\* listar_pedidos_com_itens_por_codigo(db, codigo): the ids of the orders,
\* those of the code asked for when there is one.
listar_pedidos_com_itens_por_codigo(codigo) ==
    order_by({p \in DOMAIN pedidos : codigo = Null \/ pedidos[p].codigo = codigo})

\* key = p.codigo or "(sem código)"
group_key(p) == py_or(pedidos[p].codigo, sem_codigo)

\* The dictionary grupos after the loop over the orders ps: key -> group.
RECURSIVE grupos(_, _)
grupos(ps, g) ==
    IF ps = << >> THEN g
    ELSE LET p   == Head(ps)
             key == group_key(p)
             grp == IF key \in DOMAIN g THEN g[key]
                    ELSE [codigo |-> pedidos[p].codigo,
                          total_pedidos |-> 0, pedidos |-> << >>]
         IN  grupos(Tail(ps),
                    With(g, key, [grp EXCEPT !.total_pedidos = @ + 1,
                                             !.pedidos = Append(@, p)]))

\* agrupar_pedidos_por_codigo(db, codigo): the groups in the order of
\* sorted(grupos.keys()).
agrupar_pedidos_por_codigo(codigo) ==
    LET g    == grupos(listar_pedidos_com_itens_por_codigo(codigo), << >>)
        keys == sorted(DOMAIN g)
    IN  [i \in DOMAIN keys |-> g[keys[i]]]

\* The external codes of the orders in the table.
CodigoInputs == {Null, << >>, sem_codigo, <<"A">>, <<"B">>}

\* GET /pedidos/agrupados, with and without ?codigo=
PedidosAgrupados ==
    /\ fout = << >>
    /\ \E codigo \in {Null, <<"A">>} :
          /\ fin' = codigo
          /\ fout' = <<agrupar_pedidos_por_codigo(codigo)>>
    /\ UNCHANGED <<dbVars, concVars, idemVars, env, hooks, dispatches, cbs, marks>>

InitGroup ==
    /\ \E n \in 0..MaxGroupPedidos :
          pedidos \in [1..n -> [codigo : CodigoInputs, enviado : {FALSE},
                                enviado_em : {None}]]
    /\ itens = << >>
    /\ nextPedidoId = Len(pedidos) + 1
    /\ nextItemId = 1
    /\ clock = 1
    /\ rt = NoRT
    /\ ret = NoRet
    /\ env \in [impl : {"main"}, secret : {0}, token : {TRUE}, fk : BOOLEAN]
    /\ hooks = << >>
    /\ dispatches = << >>
    /\ cbs = << >>
    /\ marks = << >>
    /\ fin = << >>
    /\ fout = << >>
    /\ InitConcIdle
    /\ InitIdemIdle

NextGroup == PedidosAgrupados

SpecGroup == InitGroup /\ [][NextGroup]_vars

----------------------------------------------------------------------------
(* SpecCrud: the back-office routes of main.py over crud.py, one request   *)
(* at a time: the handlers of Spec with the whole ItemUpdate patch, the    *)
(* order patch and the combined sale.                                      *)

\* The record row with the column f set to v.
SetColumn(row, f, v) ==
    [k \in DOMAIN row \cup {f} |-> IF k = f THEN v ELSE row[k]]

\* PedidoUpdate as sent by a caller, reduced to its status column: unset,
\* an explicit null, or a value.  The schema has no enviado or enviado_em.
PedidoUpdates == [status : {"unset", "null", "PAID"}]

\* crud.atualizar_pedido: setattr for every field that was set, commit.
atualizar_pedido(pedido_id, data) ==
    /\ IF pedido_id \notin DOMAIN pedidos
          \/ data.status = "unset"
          \* status is NOT NULL: the commit raises IntegrityError
          \/ data.status = "null"
       THEN UNCHANGED pedidos
       ELSE pedidos' = [pedidos EXCEPT ![pedido_id] =
                           SetColumn(@, "status", data.status)]
    /\ rt' = NoRT
    /\ ret' = [op |-> "atualizar_pedido",
               r  |-> IF pedido_id \notin DOMAIN pedidos THEN "none"
                      ELSE IF data.status = "null" THEN "error" ELSE "ok"]
    /\ UNCHANGED <<itens, nextPedidoId, nextItemId, clock, concVars, idemVars,
                   hookVars>>

\* main.criar_venda: crud has no attribute criar_venda, the call raises
\* AttributeError before anything is written and the response is 500.
criar_venda(enviado) ==
    /\ rt' = NoRT
    /\ ret' = [op |-> "criar_venda", r |-> "error"]
    /\ UNCHANGED <<pedidos, itens, nextPedidoId, nextItemId, clock, concVars,
                   idemVars, hookVars>>

AtualizarPedido == \E p \in PedidoIds, d \in PedidoUpdates : atualizar_pedido(p, d)
CriarVenda == \E e \in BOOLEAN : criar_venda(e)

NextCrud ==
    \/ criar_pedido
    \/ AtualizarPedido
    \/ ExcluirPedido
    \/ CriarItem
    \/ AtualizarItem
    \/ ExcluirItem
    \/ ToggleEnviado
    \/ CriarVenda

SpecCrud == Init /\ [][NextCrud]_vars

\* SpecFrame: the routes that write items, and the order patch, on orders
\* that are never deleted.
NextFrame ==
    \/ criar_pedido
    \/ AtualizarPedido
    \/ CriarItem
    \/ AtualizarItem
    \/ ExcluirItem
    \/ ToggleEnviado

SpecFrame == Init /\ [][NextFrame]_vars

----------------------------------------------------------------------------
(* SpecPatch: PATCH /itens/{item_id} with every ItemUpdate the model       *)
(* tracks, on a small table that the other item routes and the order       *)
(* deletion also change, with time passing in between.                     *)

MaxPatchPedidos == 1
MaxPatchItens   == 1

\* POST /pedidos and POST /pedidos/{pedido_id}/itens while the table is small.
PatchCriarPedido == nextPedidoId <= MaxPatchPedidos /\ criar_pedido
PatchCriarItem   == nextItemId <= MaxPatchItens /\ CriarItem

AtualizarItemCampos == \E i \in ItemIds, d \in ItemUpdates : atualizar_item(i, d)

NextPatch ==
    \/ PatchCriarPedido
    \/ PatchCriarItem
    \/ AtualizarItemCampos
    \/ ToggleEnviado
    \/ ExcluirItem
    \/ ExcluirPedido
    \/ Tick

SpecPatch == Init /\ [][NextPatch]_vars

----------------------------------------------------------------------------
(* SpecShop: main.py with the storefront and the back office at work on    *)
(* the same tables, N8N_WEBHOOK_URL and N8N_HMAC_SECRET set.  The          *)
(* storefront delivers unsigned webhooks (no YAMPI_WEBHOOK_SECRET), the    *)
(* automation engine sends signed status callbacks, and the back office    *)
(* creates, patches, toggles and deletes items; one request at a time.     *)

MaxShopHooks == 1
MaxShopCbs   == 1

\* The paid order and the pending order, with one item each.
ShopDeliveries ==
    {[body |-> b, sig |-> << >>] : b \in {h \in HookBodies : h.n \in {1, 3}}}

\* The delivered callback, signed by the automation engine; the storefront
\* answers 2xx to the PUT that follows.
ShopCallbacks ==
    {[body |-> b, sig |-> hex(hmac_digest(N8nSecret, b.n))] :
        b \in {c \in CallbackBodies : c.n = 5}}

ShopWebhook ==
    /\ Len(hooks) < MaxShopHooks
    /\ nextPedidoId <= MaxPedidos
    /\ nextItemId <= MaxItens
    /\ \E d \in ShopDeliveries, selfcall \in {"served", "unreachable"},
          outcome \in Outcomes :
          yampi_webhook_main(d, selfcall, outcome)
    /\ UNCHANGED <<clock, rt, ret, concVars, cfg, IDEM_CACHE, reqs, calls, ok2xx,
                   env, cbs, marks, fin, fout>>

\* The status callback writing the delivery to the local orders.
ShopStatusBugShipsOrders ==
    /\ Len(cbs) < MaxShopCbs
    /\ \E c \in ShopCallbacks : fulfillment_status(c, "2xx")
    /\ pedidos' = [p \in DOMAIN pedidos |->
                      [pedidos[p] EXCEPT !.enviado = TRUE, !.enviado_em = _now_iso]]
    /\ UNCHANGED <<itens, nextPedidoId, nextItemId, clock, rt, ret, concVars,
                   idemVars, env, hooks, dispatches, fin, fout>>

ShopStatus ==
    /\ Len(cbs) < MaxShopCbs
    /\ \E c \in ShopCallbacks : fulfillment_status(c, "2xx")
    /\ UNCHANGED <<dbVars, concVars, idemVars, env, hooks, dispatches,
                   fin, fout>>

InitShop ==
    /\ env = [impl |-> "main", secret |-> 0, token |-> TRUE, fk |-> TRUE]
    /\ cfg = [impl |-> "main", dry_run |-> FALSE, configured |-> TRUE]
    /\ hooks = << >>
    /\ dispatches = << >>
    /\ cbs = << >>
    /\ marks = << >>
    /\ fin = << >>
    /\ fout = << >>
    /\ _IDEM_CACHE = {}
    /\ IDEM_CACHE = {}
    /\ reqs = << >>
    /\ calls = << >>
    /\ ok2xx = {}
    /\ InitDb
    /\ InitConcIdle

NextShop ==
    \/ ShopWebhook
    \/ ShopStatus
    \/ CriarItem
    \/ AtualizarItem
    \/ ExcluirItem
    \/ ToggleEnviado

SpecShop == InitShop /\ [][NextShop]_vars

----------------------------------------------------------------------------
(* SpecTrigger: /yampi/webhook of main.py on every kind of event, without  *)
(* YAMPI_WEBHOOK_SECRET, with and without the automation engine            *)
(* configured.                                                             *)

MaxTrigger == 1

\* The events of the payloads, after str(...).strip(); the empty string is
\* a payload without `event`.
TriggerEvents ==
    <<"order.paid", "order.created", "order.delivered", "product.updated",
      "order.refunded", "">>

\* The order statuses of the payloads.
TriggerStatuses ==
    <<paid, <<"P", "A", "I", "D">>, <<"A", "p", "p", "r", "o", "v", "e", "d">>,
      pending, Missing>>

TriggerBodies ==
    {[n |-> 20 + 10 * e + s, json |-> TRUE, event |-> TriggerEvents[e],
      order |-> TRUE, code |-> "Y1", status |-> TriggerStatuses[s],
      items |-> OneItem] :
        e \in DOMAIN TriggerEvents, s \in DOMAIN TriggerStatuses}

TriggerWebhook ==
    /\ Len(hooks) < MaxTrigger
    /\ nextPedidoId <= MaxPedidos
    /\ nextItemId <= MaxItens
    /\ \E b \in TriggerBodies, selfcall \in {"served", "unreachable"},
          outcome \in Outcomes :
          yampi_webhook_main([body |-> b, sig |-> << >>], selfcall, outcome)
    /\ UNCHANGED <<clock, rt, ret, concVars, cfg, IDEM_CACHE, reqs, calls, ok2xx,
                   env, cbs, marks, fin, fout>>

InitTrigger ==
    /\ env = [impl |-> "main", secret |-> 0, token |-> TRUE, fk |-> TRUE]
    /\ cfg \in [impl : {"main"}, dry_run : BOOLEAN, configured : BOOLEAN]
    /\ hooks = << >>
    /\ dispatches = << >>
    /\ cbs = << >>
    /\ marks = << >>
    /\ fin = << >>
    /\ fout = << >>
    /\ _IDEM_CACHE = {}
    /\ IDEM_CACHE = {}
    /\ reqs = << >>
    /\ calls = << >>
    /\ ok2xx = {}
    /\ InitDb
    /\ InitConcIdle

NextTrigger == TriggerWebhook

SpecTrigger == InitTrigger /\ [][NextTrigger]_vars

----------------------------------------------------------------------------
(* SpecDispatch: main._criar_pedido_local_de_yampi followed by the body    *)
(* that _disparar_fulfillment_n8n posts to /fulfillment/create, for orders *)
(* with no, one and two items.  fout holds the bodies, one per delivery.   *)

MaxDispatch == 2

\* The dict variant_map of _disparar_fulfillment_n8n.
variant_map ==
    {<<"PS4", PS4 \o Secundaria>>, <<"PS4s", PS4 \o Secundaria>>,
     <<"PS5", PS5 \o Primaria>>, <<"PS5s", PS5 \o Secundaria>>}

\* variant_map.get(key, default)
variant_map_get(key, default) ==
    IF \E e \in variant_map : e[1] = key
    THEN (CHOOSE e \in variant_map : e[1] = key)[2]
    ELSE default

\* The variant computed from the last item.
VariantBugLastItem(itens_out) ==
    variant_map_get(IF itens_out # << >> THEN itens_out[Len(itens_out)].plataforma
                    ELSE "PS5",
                    PS5 \o Primaria)

\* first = itens[0] if itens else None; variant_map.get(first.plataforma if
\* first else "PS5", "PS5 Primária")
variant(itens_out) ==
    variant_map_get(IF itens_out # << >> THEN itens_out[1].plataforma ELSE "PS5",
                    PS5 \o Primaria)

\* str(pedido.codigo or pedido.id) of the order with the local id pedido_id.
order_id(pedido, pedido_id) ==
    IF pedido.codigo # "" THEN pedido.codigo ELSE ToString(pedido_id)

\* The body _disparar_fulfillment_n8n builds from the order and its items.
fulfillment_body(pedido, pedido_id, itens_out) ==
    [order_id |-> order_id(pedido, pedido_id),
     variant  |-> variant(itens_out),
     items    |-> [k \in DOMAIN itens_out |->
                      IF itens_out[k].plataforma \in {"PS5", "PS5s"}
                      THEN "PlayStation 5" ELSE "PlayStation 4"]]

\* The platform labels of the storefront.
DispatchLabels ==
    {PS4 \o Primaria, PS4 \o Secundaria, PS5 \o Primaria, PS5 \o Secundaria}

\* Paid orders with up to two items; code stands for
\* yampi_order.get("code") or yampi_order.get("id") or "", which is empty when
\* the payload has neither.
DispatchOrders ==
    {[n |-> 1, json |-> TRUE, event |-> "order.paid", code |-> c,
      status |-> paid, items |-> its] :
        c \in {"Y1", ""},
        its \in {<< >>}
                \cup {<<[platform |-> p, variant_name |-> Missing]>> :
                         p \in DispatchLabels}
                \cup {<<[platform |-> p, variant_name |-> Missing],
                        [platform |-> q, variant_name |-> Missing]>> :
                         p \in DispatchLabels, q \in DispatchLabels}}

\* The webhook up to the body of the POST to /fulfillment/create.
Dispatch ==
    /\ Len(hooks) < MaxDispatch
    /\ \E order \in DispatchOrders :
          LET t == criar_pedido_local(order)
              itens_out == [k \in 1..Len(order.items) |->
                               t.itens[nextItemId + k - 1]]
          IN
          /\ pedidos' = t.pedidos
          /\ itens' = t.itens
          /\ nextItemId' = t.nextItemId
          /\ nextPedidoId' = nextPedidoId + 1
          /\ hooks' = Append(hooks, [d |-> [body |-> order, sig |-> << >>],
                                     verdict |-> "ok", resp |-> "200",
                                     parsed |-> TRUE,
                                     fired  |-> TRUE,
                                     pedido |-> nextPedidoId,
                                     item0  |-> nextItemId,
                                     called |-> FALSE])
          /\ fout' = Append(fout, fulfillment_body(t.pedidos[nextPedidoId],
                                                   nextPedidoId, itens_out))
    /\ UNCHANGED <<clock, rt, ret, concVars, idemVars, env, dispatches, cbs, marks,
                   fin>>

InitDispatch ==
    /\ env = [impl |-> "main", secret |-> 0, token |-> TRUE, fk |-> TRUE]
    /\ hooks = << >>
    /\ dispatches = << >>
    /\ cbs = << >>
    /\ marks = << >>
    /\ fin = << >>
    /\ fout = << >>
    /\ InitDb
    /\ InitConcIdle
    /\ InitIdemIdle

NextDispatch == Dispatch

SpecDispatch == InitDispatch /\ [][NextDispatch]_vars

----------------------------------------------------------------------------
(* Properties of Spec.                                                     *)

\* The items the order p owns in the table I.
ItensDe(I, p) == {i \in DOMAIN I : I[i].pedido_id = p}

\* The order p owns at least one item and every item it owns is shipped.
FullyShipped(I, p) ==
    /\ ItensDe(I, p) # {}
    /\ \A i \in ItensDe(I, p) : I[i].enviado

\* C1: after any sequence of completed handlers, run one at a time, every
\* order has enviado = TRUE exactly when it owns at least one item and all
\* of its items have enviado = TRUE; an order without items has enviado = FALSE.
C1_EnviadoIffAllItemsSent ==
    \A p \in DOMAIN pedidos : pedidos[p].enviado <=> FullyShipped(itens, p)

\* C1 witness: an order shipped through two shipped items.
C1_Witness ==
    \E p \in DOMAIN pedidos :
        pedidos[p].enviado /\ Cardinality(ItensDe(itens, p)) >= 2

\* C1 witness of the empty case: every item created so far is gone again and
\* the order that owned them is un-shipped.
C1_WitnessEmpty ==
    /\ nextItemId > 1
    /\ \E p \in DOMAIN pedidos : ItensDe(itens, p) = {} /\ ~pedidos[p].enviado
    /\ DOMAIN itens = {}

\* C4: in every step, an order that becomes fully shipped gets enviado_em
\* stamped with the time of that handler; an order that stays fully shipped
\* keeps its enviado_em; an order that is left with an un-shipped item has
\* enviado_em cleared.
C4_EnviadoEmLifecycle ==
    [][\A p \in DOMAIN pedidos \cap DOMAIN pedidos' :
          LET before == FullyShipped(itens, p)
              after  == FullyShipped(itens', p)
          IN  /\ (~before /\ after) => pedidos'[p].enviado_em = clock
              /\ (before /\ after) => pedidos'[p].enviado_em = pedidos[p].enviado_em
              /\ (\E i \in ItensDe(itens', p) : ~itens'[i].enviado)
                    => pedidos'[p].enviado_em = None]_vars

\* C4 witness: a fully shipped order that kept its stamp while an item
\* shipped later was added to it.
C4_Witness ==
    \E p \in DOMAIN pedidos :
        /\ pedidos[p].enviado
        /\ pedidos[p].enviado_em # None
        /\ \E i \in ItensDe(itens, p) : itens[i].enviado_em > pedidos[p].enviado_em

\* C5: after two toggle_enviado calls in a row on an item that was
\* un-shipped before the first, the owning order's enviado and enviado_em
\* are what they were before the first call.
C5_ToggleRoundTrip ==
    rt.n = 2 =>
        /\ rt.item \in DOMAIN itens
        /\ LET p == itens[rt.item].pedido_id
           IN  /\ pedidos[p].enviado = rt.enviado
               /\ pedidos[p].enviado_em = rt.enviado_em

\* C5 witness: a completed round trip on an item whose sibling is shipped
\* (the first toggle made the order fully shipped, the second undid it).
C5_Witness ==
    /\ rt.n = 2
    /\ rt.item \in DOMAIN itens
    /\ \E j \in ItensDe(itens, itens[rt.item].pedido_id) :
          j # rt.item /\ itens[j].enviado

----------------------------------------------------------------------------
(* Properties of SpecConc.                                                 *)

\* Every session has finished its handler normally, and the handlers worked
\* on pairwise different items of one order.
SiblingsDone ==
    /\ \A s \in Sessions : sess[s].pc = "done" /\ sess[s].item_id # 0
    /\ \A s, t \in Sessions :
          /\ sess[s].pedido_id = sess[t].pedido_id
          /\ (s # t => sess[s].item_id # sess[t].item_id)

\* C2: once concurrent item handlers on sibling items of one order have all
\* finished, whatever the interleaving of their commits and recomputations,
\* the order's enviado is the AND of its items' enviado flags.
C2_SiblingsLeaveOrderConsistent ==
    SiblingsDone =>
        \A p \in DOMAIN pedidos : pedidos[p].enviado <=> FullyShipped(itens, p)

\* C3: the item write and the recomputation of the owning order are one
\* transaction: with a single handler running, no committed state of the
\* tables shows an item change without the matching enviado / enviado_em of
\* its order.
C3_NoCommittedStateBetweenWriteAndRecompute ==
    Cardinality({s \in Sessions : sess[s].pc # "idle"}) <= 1 =>
        \A p \in DOMAIN pedidos :
            /\ pedidos[p].enviado <=> FullyShipped(itens, p)
            /\ pedidos[p].enviado_em # None <=> FullyShipped(itens, p)

----------------------------------------------------------------------------
(* Properties of SpecIdem.                                                 *)

\* The idempotency cache of the deployed module.
Cache == IF cfg.impl = "main" THEN _IDEM_CACHE ELSE IDEM_CACHE

\* C6: a request that arrives after a request with its key completed with a
\* 2xx answer returns the duplicate indicator and makes no outbound call,
\* and no key ever leaves the cache.
C6_DedupAfterSuccess ==
    [][/\ \A r \in ReqIds :
             reqs'[r].late =>
                 /\ reqs'[r].pc = "done"
                 /\ reqs'[r].resp.kind = "dedup"
                 /\ reqs'[r].called = 0
       /\ Cache \subseteq Cache'
       /\ ok2xx' \subseteq Cache']_vars

\* C6 witness: a 2xx call for a key, then a request with that key answered
\* as a duplicate: one outbound call in all.
C6_Witness ==
    \E r \in ReqIds :
        /\ reqs[r].late
        /\ reqs[r].resp.kind = "dedup"
        /\ Count(reqs[r].key) = 1

\* The request r completes in this step after an outbound call that got no 2xx.
FailsNow(r) ==
    /\ reqs[r].pc # "done"
    /\ reqs'[r].pc = "done"
    /\ reqs'[r].called = 1
    /\ ~reqs'[r].resp.ok

\* The request r arrives in this step with a key that was tried before and
\* never got a 2xx.
RetriesNow(r) ==
    /\ reqs[r].pc = "new"
    /\ reqs'[r].pc # "new"
    /\ reqs'[r].key \in DOMAIN calls
    /\ reqs'[r].key \notin ok2xx

\* C7: a request whose outbound call gets no 2xx (non-2xx status or
\* transport failure) leaves the cache as it was, a key tried without a 2xx
\* is not in the cache, the next request with such a key makes a real
\* outbound call, and no request makes more than one outbound call.
C7_FailureLeavesKeyUsable ==
    [][\A r \in ReqIds :
          /\ reqs'[r].called <= 1
          /\ FailsNow(r) => Cache' = Cache
          /\ reqs'[r].key \in DOMAIN calls' \ ok2xx' => reqs'[r].key \notin Cache'
          /\ RetriesNow(r) =>
                 /\ reqs'[r].called = 1
                 /\ reqs'[r].resp.kind # "dedup"
                 /\ CountIn(calls', reqs'[r].key) = CountIn(calls, reqs'[r].key) + 1]_vars

\* C7 witness: main.py, a failed dispatch followed by a request with the
\* same key that made a second outbound call.
C7_Witness ==
    /\ cfg.impl = "main"
    /\ \E r1, r2 \in ReqIds :
          /\ r1 < r2
          /\ reqs[r1].key = reqs[r2].key
          /\ reqs[r1].called = 1 /\ ~reqs[r1].resp.ok
          /\ reqs[r2].called = 1
          /\ Count(reqs[r2].key) = 2

\* C8: of two requests with the same key in flight at the same time, at
\* most one performs the outbound call.
C8_AtMostOneCallInFlight ==
    \A r1, r2 \in ReqIds :
        (/\ r1 # r2
         /\ reqs[r1].pc = "awaiting"
         /\ reqs[r2].pc = "awaiting"
         /\ reqs[r1].key = reqs[r2].key)
        => ~(reqs[r1].called = 1 /\ reqs[r2].called = 1)

\* C9: every key in the idempotency cache had an outbound call that carried
\* it and returned 2xx.
C9_CacheOnlyAfter2xx == Cache \subseteq ok2xx

\* C10: a request without idempotency_key gets the generated key back in
\* its response, whatever the outcome.
C10_GeneratedKeyInResponse ==
    \A r \in ReqIds :
        (reqs[r].pc = "done" /\ reqs[r].raw = << >> /\ reqs[r].key # NoKey)
        => reqs[r].resp.idempotency_key = reqs[r].key

----------------------------------------------------------------------------
\* C16: criar_item called with an order id that does not exist returns the
\* not-found outcome (None, HTTP 404) and leaves the store as it was: no
\* item is inserted, no id is consumed and no order changes.
C16_CriarItemUnknownOrder ==
    [][\A p \in PedidoIds, e \in BOOLEAN :
          (p \notin DOMAIN pedidos /\ criar_item(p, "jogoA", e))
              => /\ ret' = [op |-> "criar_item", r |-> "none"]
                 /\ itens' = itens
                 /\ pedidos' = pedidos
                 /\ nextItemId' = nextItemId]_vars

\* criar_item has just returned None while orders and items exist.
C16_Witness ==
    /\ ret = [op |-> "criar_item", r |-> "none"]
    /\ pedidos # << >>
    /\ itens # << >>
    /\ \E p \in PedidoIds : p \notin DOMAIN pedidos

----------------------------------------------------------------------------
\* C17: in every reachable state each item's pedido_id is the id of an
\* existing order, also when criar_item and excluir_pedido of the same order
\* run in two sessions.
C17_ItemsBelongToAnOrder ==
    \A i \in DOMAIN itens : itens[i].pedido_id \in DOMAIN pedidos

----------------------------------------------------------------------------
(* Properties of SpecHook.                                                 *)

\* C11: however often the storefront delivers the webhook of a paid order
\* (a retry, or order.created followed by order.paid), at most one dispatch
\* call for that order code reaches the automation engine from main.py.
C11_OneDispatchPerOrderCode ==
    env.impl = "main" => \A code \in DOMAIN dispatches : dispatches[code] <= 1

\* C12: with a secret configured, the storefront webhook verifier accepts
\* exactly the requests whose signature header is the base64 HMAC of the raw
\* body, the callback verifier exactly those whose x-signature is the
\* hexadecimal HMAC of the raw body, and every other request gets 401.
C12_VerifiersAcceptExactlyTheHmac ==
    /\ \A i \in DOMAIN hooks :
          LET h == hooks[i] IN
          (env.secret # 0 /\ h.verdict # "none")
              => /\ h.verdict = "ok"
                        <=> h.d.sig = b64encode(hmac_digest(env.secret, h.d.body.n))
                 /\ h.verdict # "ok" => h.resp = "401"
    /\ \A j \in DOMAIN cbs :
          LET c == cbs[j] IN
          c.verdict # "none"
              => /\ c.verdict = "ok"
                        <=> c.c.sig = hex(hmac_digest(N8nSecret, c.c.body.n))
                 /\ c.verdict # "ok" => c.resp = "401"

\* The signature header of the delivery d is not the HMAC of its body under
\* the configured secret, in either encoding.
Unsigned(d) ==
    d.sig \notin {hex(hmac_digest(env.secret, d.body.n)),
                  b64encode(hmac_digest(env.secret, d.body.n))}

\* C13: with the webhook secret configured, a delivery whose signature is
\* absent or does not match is answered 401 before the body is parsed, and
\* creates no order and makes no dispatch or forward.
C13_BadSignatureRejectedWithoutEffect ==
    \A i \in DOMAIN hooks :
       LET h == hooks[i] IN
       (env.secret # 0 /\ Unsigned(h.d))
           => /\ h.resp = "401"
              /\ ~h.parsed
              /\ h.pedido = 0
              /\ ~h.called

\* C14: without a webhook secret (and the code has no fail-open switch to
\* select) the webhook handler rejects the delivery, creates no order and
\* triggers no dispatch.
C14_NoSecretFailsClosed ==
    \A i \in DOMAIN hooks :
       LET h == hooks[i] IN
       env.secret = 0
           => /\ h.verdict # "ok"
              /\ h.resp # "200"
              /\ h.pedido = 0
              /\ ~h.called

\* C15: a status callback whose x-signature was verified is answered
\* {ok: true} (200), whatever happens to the mark-delivered call.
C15_VerifiedCallbackAnswersOk ==
    \A j \in DOMAIN cbs : cbs[j].verdict = "ok" => cbs[j].resp = "200"

----------------------------------------------------------------------------
(* Properties of SpecIngest.                                               *)

\* The characters a and b are the same letter, whatever their case.
SameLetter(a, b) ==
    a = b \/ \E k \in DOMAIN Uppercase : {a, b} = {Uppercase[k], Lowercase[k]}

\* The value v is a string equal to the word w when case is ignored.
EqualsIgnoringCase(v, w) ==
    /\ v \notin {Missing, Null}
    /\ Len(v) = Len(w)
    /\ \A i \in DOMAIN w : SameLetter(v[i], w[i])

\* C19: the order created from a payload has the status PAID exactly when
\* the payload's status is "paid" or "approved" in any letter case, and
\* PENDING for every other value and for a missing status.
C19_StatusPaidIffPaidOrApproved ==
    \A i \in DOMAIN hooks :
       LET h == hooks[i] IN
       h.pedido # 0
           => pedidos[h.pedido].status =
                 IF \/ EqualsIgnoringCase(h.d.body.status, paid)
                    \/ EqualsIgnoringCase(h.d.body.status, approved)
                 THEN "PAID" ELSE "PENDING"

\* Orders were ingested from an upper-case "PAID", from "approved" and from
\* a payload without status.
C19_Witness ==
    /\ \E i \in DOMAIN hooks :
          /\ hooks[i].d.body.status = <<"P", "A", "I", "D">>
          /\ pedidos[hooks[i].pedido].status = "PAID"
    /\ \E i \in DOMAIN hooks :
          /\ hooks[i].d.body.status \in {Missing, pending}
          /\ pedidos[hooks[i].pedido].status = "PENDING"

\* The keys of the fixed platform table and its lookup, default PS5.
TableKeys == {e[1] : e \in plataformas}

Lookup(key) ==
    IF key \in TableKeys THEN (CHOOSE e \in plataformas : e[1] = key)[2] ELSE "PS5"

\* The k-th item row created for the handled delivery h.
ItemOf(h, k) == itens[h.item0 + k - 1]

\* The string s without its leading and trailing spaces.
Trimmed(s) ==
    LET inked == {i \in DOMAIN s : s[i] # " "}
    IN  IF inked = {} THEN << >>
        ELSE SubSeq(s, CHOOSE i \in inked : \A j \in inked : i <= j,
                       CHOOSE i \in inked : \A j \in inked : j <= i)

\* The value v is a non-empty string.
NonEmpty(v) == v \notin {Missing, Null, << >>}

\* C20 as stated: every item main.py creates has a platform of the
\* enumeration, the table's entry for the item's platform string (for its
\* variant_name when platform is absent or empty), and PS5 for a string that is not
\* in the table and for a missing value.
C20_PlatformFromTable ==
    env.impl = "main" =>
    \A i \in DOMAIN hooks :
       LET h == hooks[i] IN
       h.pedido # 0 =>
       \A k \in DOMAIN h.d.body.items :
          LET it  == h.d.body.items[k]
              key == IF NonEmpty(it.platform) THEN it.platform ELSE it.variant_name
          IN  /\ ItemOf(h, k).plataforma \in {"PS4", "PS4s", "PS5", "PS5s"}
              /\ ItemOf(h, k).plataforma = Lookup(key)

\* C20 as amended: the table is looked up with the item's platform string,
\* or its variant_name when platform is absent or empty, after the
\* whitespace around it is removed; every other string, and a missing value, give PS5.
C20_PlatformFromTableTrimmed ==
    env.impl = "main" =>
    \A i \in DOMAIN hooks :
       LET h == hooks[i] IN
       h.pedido # 0 =>
       \A k \in DOMAIN h.d.body.items :
          LET it  == h.d.body.items[k]
              key == IF NonEmpty(it.platform) THEN Trimmed(it.platform)
                     ELSE IF NonEmpty(it.variant_name) THEN Trimmed(it.variant_name)
                     ELSE << >>
          IN  /\ ItemOf(h, k).plataforma \in {"PS4", "PS4s", "PS5", "PS5s"}
              /\ ItemOf(h, k).plataforma = Lookup(key)

\* main.py has ingested an item whose platform is a table key between
\* spaces, one whose platform is empty and whose variant_name is a key, and
\* one whose platform is not in the table.
C20_Witness ==
    /\ env.impl = "main"
    /\ \E i \in DOMAIN hooks :
          /\ hooks[i].d.body.items =
                <<[platform |-> <<" ">> \o PS4 \o <<" ">>, variant_name |-> Missing]>>
          /\ ItemOf(hooks[i], 1).plataforma = "PS4"
    /\ \E i \in DOMAIN hooks :
          /\ hooks[i].d.body.items \in
                {<<[platform |-> << >>, variant_name |-> PS5 \o Secundaria]>>,
                 <<[platform |-> Xbox, variant_name |-> PS4]>>}
          /\ ItemOf(hooks[i], 1).plataforma \in {"PS5s", "PS5"}

----------------------------------------------------------------------------
(* Properties of SpecNorm.                                                 *)

\* C18: _normalize_email_for_response is idempotent: applied to its own
\* result it returns that result, for every input string.
C18_NormalizeIdempotent ==
    Len(fout) >= 2 => fout[2] = fout[1]

\* The part of the address s after its last "@".
DomainOf(s) == SubSeq(s, rfind(s, "@") + 1, Len(s))

\* The string s is made of letters, "." and "@" only, with at least one
\* "@": the clean-up steps before the split leave it as it is.
PlainAddress(s) ==
    /\ Range(s) \subseteq Range(Uppercase) \cup Range(Lowercase) \cup {".", "@"}
    /\ "@" \in Range(s)

\* The domains the placeholder replaces, as the specification lists them.
ReservedDomain(d) ==
    \/ d = << >>
    \/ lower(d) \in {<<"l", "o", "c", "a", "l", "h", "o", "s", "t">>,
                     <<"l", "o", "c", "a", "l">>,
                     <<"e", "x", "a", "m", "p", "l", "e">>,
                     <<"i", "n", "v", "a", "l", "i", "d">>,
                     <<"t", "e", "s", "t">>}
    \/ endswith(lower(d), <<".", "l", "o", "c", "a", "l">>)

\* C30: when the part of the input after its last "@" is empty, a reserved
\* name or ends in ".local", the domain of the result is the placeholder
\* domain zion.games.
C30_ReservedDomainReplaced ==
    (Len(fout) >= 1 /\ PlainAddress(fin) /\ ReservedDomain(DomainOf(fin)))
        => DomainOf(fout[1]) = zion_games

----------------------------------------------------------------------------
(* Properties of SpecGroup.                                                *)

\* The orders the request covers: all, or those of the code asked for.
Covered == {p \in DOMAIN pedidos : fin = Null \/ pedidos[p].codigo = fin}

\* The label a group is ordered by: its code, the placeholder without one.
LabelOf(g) == IF g.codigo = Null THEN sem_codigo ELSE g.codigo

\* C24: the orders without a code are in a group that holds no order with
\* a code (the empty code and the code equal to the placeholder label
\* included), every order is in exactly one group, and the groups come in
\* the lexicographic order of their codes, the group without a code under
\* its placeholder label.
C24_GroupsByCode ==
    fout # << >> =>
    LET out == fout[1] IN
    /\ \A i \in DOMAIN out :
          \A j, k \in DOMAIN out[i].pedidos :
             (pedidos[out[i].pedidos[j]].codigo = Null)
                 <=> (pedidos[out[i].pedidos[k]].codigo = Null)
    /\ \A p \in Covered :
          Cardinality({<<i, j>> \in (DOMAIN out) \X (1..MaxGroupPedidos + 1) :
                          j \in DOMAIN out[i].pedidos /\ out[i].pedidos[j] = p}) = 1
    /\ \A i, j \in DOMAIN out :
          i < j => ~str_lt(LabelOf(out[j]), LabelOf(out[i]))

----------------------------------------------------------------------------
(* Properties of SpecCompare.                                              *)

\* What the check named by the record r does with the claimed signature w.
CheckOf(r, w) == IF r.check = "webhook" THEN webhook_check(w) ELSE callback_check(w, 1)

\* C26: a rejected signature takes every inbound check the same number of
\* steps as any other rejected signature of its length, however many of its
\* leading characters are correct.
C26_RejectionInConstantTime ==
    \A i \in DOMAIN fout :
       fout[i].verdict = "401" =>
       \A w \in ClaimedSignatures :
          (Len(w) = Len(fin) /\ CheckOf(fout[i], w).verdict = "401")
              => CheckOf(fout[i], w).steps = fout[i].steps

----------------------------------------------------------------------------
(* More properties of SpecHook.                                            *)

\* C27: fulfillment_status invokes the mark-delivered call of the storefront
\* exactly for the callbacks whose signature it verified, whose status is
\* "delivered" in any letter case and whose order identifier is a non-empty
\* string; the other callbacks cause no call.
C27_MarkDeliveredOnlyWhenDelivered ==
    \A i \in DOMAIN cbs :
       LET cb == cbs[i] IN
       /\ cb.wanted <=> /\ cb.verdict = "ok"
                        /\ EqualsIgnoringCase(cb.c.body.status, delivered)
                        /\ NonEmpty(cb.c.body.order_id)
       /\ cb.marked => cb.wanted

\* C22: a verified webhook request whose body is not JSON, or has no
\* `order`, is answered 400 and creates no order, no item and no dispatch.
C22_MalformedWebhookRejected ==
    env.impl \in {"main", "router"} =>
    \A i \in DOMAIN hooks :
       LET h == hooks[i] IN
       (h.verdict = "ok" /\ (~h.d.body.json \/ ~h.d.body.order))
           => /\ h.resp = "400"
              /\ h.pedido = 0
              /\ ~h.called

----------------------------------------------------------------------------
(* Properties of SpecPatch.                                                *)

\* What C28 says of the step atualizar_item(i, d) on an existing item.
PatchEffect(i, d) ==
    LET old == itens[i]
        new == itens'[i]
    IN  /\ DOMAIN itens' = DOMAIN itens
        /\ \A j \in DOMAIN itens \ {i} : itens'[j] = itens[j]
        /\ new.pedido_id = old.pedido_id
        /\ d.nome_produto = "unset" => new.nome_produto = old.nome_produto
        /\ d.enviado \in {"unset", "null"} => new.enviado = old.enviado
        /\ ret'.r = "ok" =>
              /\ d.nome_produto # "unset" => new.nome_produto = d.nome_produto
              /\ d.enviado \in {"true", "false"} => new.enviado = (d.enviado = "true")
        /\ new.enviado_em = IF ~old.enviado /\ new.enviado THEN clock
                            ELSE IF old.enviado /\ ~new.enviado THEN None
                            ELSE old.enviado_em

\* C28: atualizar_item changes only the fields present in the patch, and
\* changes the item's enviado_em only when enviado really changes: to the
\* current time on false -> true, to None on true -> false; a patch with the
\* current value of enviado, or without enviado, leaves enviado_em as it is.
C28_PatchTouchesOnlyItsFields ==
    [][\A i \in ItemIds, d \in ItemUpdates :
          atualizar_item(i, d) =>
             IF i \in DOMAIN itens THEN PatchEffect(i, d) ELSE itens' = itens]_vars

\* A patch has renamed an item, and an item stamped earlier is still
\* shipped after the last patch.
C28_Witness ==
    /\ ret = [op |-> "atualizar_item", r |-> "ok"]
    /\ \E i \in DOMAIN itens :
          /\ itens[i].nome_produto = "jogoB"
          /\ itens[i].enviado
          /\ itens[i].enviado_em < clock

----------------------------------------------------------------------------
(* Properties of SpecCrud.                                                 *)

\* C25: POST /vendas creates exactly one order and exactly one item owned
\* by that order, and the order's enviado / enviado_em agree with the item's
\* enviado flag.
C25_VendaCreatesOrderAndItem ==
    [][\A e \in BOOLEAN :
          criar_venda(e) =>
             \E p \in DOMAIN pedidos' \ DOMAIN pedidos,
                i \in DOMAIN itens' \ DOMAIN itens :
                /\ DOMAIN pedidos' = DOMAIN pedidos \cup {p}
                /\ DOMAIN itens' = DOMAIN itens \cup {i}
                /\ itens'[i].pedido_id = p
                /\ itens'[i].enviado = e
                /\ pedidos'[p].enviado = e
                /\ (pedidos'[p].enviado_em # None) = e]_vars

\* The orders other than A keep their enviado and enviado_em, and the items
\* of the orders other than A are the same rows before and after the step.
OtherOrdersKept(A) ==
    /\ \A p \in DOMAIN pedidos \ {A} :
          /\ p \in DOMAIN pedidos'
          /\ pedidos'[p].enviado = pedidos[p].enviado
          /\ pedidos'[p].enviado_em = pedidos[p].enviado_em
    /\ \A i \in DOMAIN itens :
          itens[i].pedido_id # A => i \in DOMAIN itens' /\ itens'[i] = itens[i]
    /\ \A i \in DOMAIN itens' \ DOMAIN itens : itens'[i].pedido_id = A

\* C29: creating, patching, toggling or deleting an item of order A, with
\* the recomputation that follows, leaves the enviado and enviado_em of every
\* other order and every item of every other order unchanged; and
\* atualizar_pedido changes no order's enviado or enviado_em and no item.
C29_OrdersAreIndependent ==
    [][/\ \A i \in DOMAIN itens :
             (\/ ret'.op = "atualizar_item"
                    /\ \E d \in ItemPatches : atualizar_item(i, d)
              \/ ret'.op = "toggle_enviado" /\ toggle_enviado(i)
              \/ ret'.op = "excluir_item" /\ excluir_item(i))
                => OtherOrdersKept(itens[i].pedido_id)
       /\ \A p \in PedidoIds :
             (ret'.op = "criar_item"
                 /\ \E e \in BOOLEAN : criar_item(p, "jogoA", e))
                => OtherOrdersKept(p)
       /\ \A p \in PedidoIds, d \in PedidoUpdates :
             (ret'.op = "atualizar_pedido" /\ atualizar_pedido(p, d))
                => /\ itens' = itens
                   /\ DOMAIN pedidos' = DOMAIN pedidos
                   /\ \A q \in DOMAIN pedidos :
                         /\ pedidos'[q].enviado = pedidos[q].enviado
                         /\ pedidos'[q].enviado_em = pedidos[q].enviado_em]_vars

\* Two orders with one item each: one was shipped through its item and then
\* patched by atualizar_pedido, the other is not shipped.
C29_Witness ==
    /\ ret = [op |-> "atualizar_pedido", r |-> "ok"]
    /\ \E p, q \in DOMAIN pedidos :
          /\ "status" \in DOMAIN pedidos[p]
          /\ pedidos[p].enviado /\ pedidos[p].enviado_em # None
          /\ ~pedidos[q].enviado
          /\ \E i, j \in DOMAIN itens :
                itens[i].pedido_id = p /\ itens[j].pedido_id = q

----------------------------------------------------------------------------
(* Properties of SpecShop.                                                 *)

\* The item ids an order-creating delivery h filled.
IngestedItems(h) ==
    IF h.pedido = 0 THEN {}
    ELSE h.item0 .. (h.item0 + Len(h.d.body.items) - 1)

\* The delivery the step has just handled.
LastHook == hooks'[Len(hooks')]

\* The delivery h is one main.yampi_webhook ingests.
Accepted(h) ==
    /\ h.verdict = "ok"
    /\ h.d.body.json
    /\ h.d.body.event \in {"order.created", "order.paid"}

\* The tables after the step hold the order of the delivery h and one item
\* for each item of its payload, none of them shipped, and every other row
\* as it was.
Ingested(h) ==
    /\ h.pedido \notin DOMAIN pedidos
    /\ DOMAIN pedidos' = DOMAIN pedidos \cup {h.pedido}
    /\ pedidos'[h.pedido] = [codigo     |-> h.d.body.code,
                             status     |-> main_status(h.d.body.status),
                             enviado    |-> FALSE,
                             enviado_em |-> None]
    /\ \A p \in DOMAIN pedidos : pedidos'[p] = pedidos[p]
    /\ IngestedItems(h) \cap DOMAIN itens = {}
    /\ DOMAIN itens' = DOMAIN itens \cup IngestedItems(h)
    /\ \A k \in 1..Len(h.d.body.items) :
          itens'[h.item0 + k - 1] =
             [pedido_id    |-> h.pedido,
              nome_produto |-> "jogoA",
              plataforma   |-> main_plataforma(h.d.body.items[k]),
              enviado      |-> FALSE,
              enviado_em   |-> None]
    /\ \A i \in DOMAIN itens : itens'[i] = itens[i]

\* C23: whatever becomes of the fulfillment dispatch that follows ingestion
\* (not served, unreachable, non-2xx or 2xx), the order and all the items
\* the webhook created are persisted, the same rows in every case, and no
\* other row is touched.
C23_DispatchFailureKeepsIngestion ==
    [][(Len(hooks') > Len(hooks) /\ Accepted(LastHook))
          => LastHook.pedido # 0 /\ Ingested(LastHook)]_vars

\* An order with its item is in the tables although the call to
\* /fulfillment/create failed and the webhook was answered 502.
C23_Witness ==
    \E k \in DOMAIN hooks :
       /\ hooks[k].resp = "502"
       /\ hooks[k].pedido \in DOMAIN pedidos
       /\ IngestedItems(hooks[k]) # {}
       /\ IngestedItems(hooks[k]) \subseteq DOMAIN itens

\* The orders the webhook created and the items it created with them.
IngestedPedidos == {hooks[k].pedido : k \in DOMAIN hooks} \ {0}
AllIngestedItems == UNION {IngestedItems(hooks[k]) : k \in DOMAIN hooks}

\* The webhook step leaves the order and the items it has just created
\* with enviado false, dispatch and all.
IngestedUnshipped ==
    (Len(hooks') > Len(hooks) /\ LastHook.pedido # 0)
       => /\ ~pedidos'[LastHook.pedido].enviado
          /\ \A i \in IngestedItems(LastHook) : ~itens'[i].enviado

\* The step is toggle_enviado or atualizar_item on the item i.
MarksItem(i) ==
    \/ ret'.op = "toggle_enviado" /\ toggle_enviado(i)
    \/ ret'.op = "atualizar_item" /\ \E d \in ItemPatches : atualizar_item(i, d)

\* The step makes the enviado of the ingested order p true.
PedidoShipped(p) ==
    /\ p \in DOMAIN pedidos /\ p \in DOMAIN pedidos'
    /\ ~pedidos[p].enviado /\ pedidos'[p].enviado

\* The step makes the enviado of the ingested item i true.
ItemShipped(i) ==
    /\ i \in DOMAIN itens /\ i \in DOMAIN itens'
    /\ ~itens[i].enviado /\ itens'[i].enviado

\* C21 as stated: an ingested order and its ingested items have enviado
\* false after the webhook step, and the enviado of either becomes true only
\* in a step of toggle_enviado or atualizar_item.
C21_UnshippedUntilMarked ==
    [][/\ IngestedUnshipped
       /\ \A p \in IngestedPedidos :
             PedidoShipped(p) => \E i \in DOMAIN itens : MarksItem(i)
       /\ \A i \in AllIngestedItems :
             ItemShipped(i) => \E j \in DOMAIN itens : MarksItem(j)]_vars

\* C21, amended: an ingested order and its ingested items have enviado false
\* after the webhook step; the enviado of an ingested item becomes true only
\* in a step of toggle_enviado or atualizar_item on that item, and the
\* enviado of the order only in a step of toggle_enviado, atualizar_item or
\* excluir_item on one of its items or of criar_item for it.
C21_UnshippedUntilItemOperation ==
    [][/\ IngestedUnshipped
       /\ \A p \in IngestedPedidos :
             PedidoShipped(p) =>
                \/ \E i \in DOMAIN itens :
                      /\ itens[i].pedido_id = p
                      /\ \/ MarksItem(i)
                         \/ ret'.op = "excluir_item" /\ excluir_item(i)
                \/ /\ ret'.op = "criar_item"
                   /\ \E e \in BOOLEAN : criar_item(p, "jogoA", e)
       /\ \A i \in AllIngestedItems : ItemShipped(i) => MarksItem(i)]_vars

\* An ingested order that is shipped after its ingested item was deleted
\* unshipped: the only item it has was created for it as shipped.
C21_Witness ==
    \E k \in DOMAIN hooks :
       /\ hooks[k].pedido \in DOMAIN pedidos
       /\ pedidos[hooks[k].pedido].enviado
       /\ IngestedItems(hooks[k]) # {}
       /\ IngestedItems(hooks[k]) \cap DOMAIN itens = {}
       /\ ret.op \in {"criar_item", "excluir_item"}

----------------------------------------------------------------------------
(* Invariants of the rows.                                                 *)

\* C34: every item row has enviado_em present exactly when its enviado is
\* true, in every state the item handlers reach.
C34_ItemStampIffShipped ==
    \A i \in DOMAIN itens : (itens[i].enviado_em # None) <=> itens[i].enviado

\* An item that was shipped and un-shipped again next to one that is
\* shipped, after a patch.
C34_Witness ==
    /\ ret = [op |-> "atualizar_item", r |-> "ok"]
    /\ \E i, j \in DOMAIN itens :
          /\ itens[i].enviado /\ itens[i].enviado_em # None
          /\ ~itens[j].enviado /\ itens[j].enviado_em = None
          /\ clock > 1

\* C35: every order row has enviado_em present exactly when its enviado is
\* true, in every state the order and item handlers reach.
C35_PedidoStampIffShipped ==
    \A p \in DOMAIN pedidos : (pedidos[p].enviado_em # None) <=> pedidos[p].enviado

\* A shipped order with its stamp next to one that is not shipped, after
\* the order patch.
C35_Witness ==
    /\ ret = [op |-> "atualizar_pedido", r |-> "ok"]
    /\ \E p, q \in DOMAIN pedidos :
          /\ pedidos[p].enviado /\ pedidos[p].enviado_em # None
          /\ ~pedidos[q].enviado /\ pedidos[q].enviado_em = None
          /\ ItensDe(itens, q) # {}

----------------------------------------------------------------------------
(* More properties of SpecNorm.                                            *)

\* The positions of "@" in the string s.
AtSigns(s) == {k \in DOMAIN s : s[k] = "@"}

\* The string o is an address in the form the response model accepts.
WellFormedAddress(o) ==
    /\ Cardinality(AtSigns(o)) = 1
    /\ LET at     == CHOOSE k \in AtSigns(o) : TRUE
           local  == SubSeq(o, 1, at - 1)
           domain == SubSeq(o, at + 1, Len(o))
       IN  /\ local # << >>
           /\ \A k \in DOMAIN local :
                 \/ local[k] \in Range(Uppercase) \cup Range(Lowercase)
                 \/ local[k] \in Range(Digits)
                 \/ local[k] \in {".", "_", "+", "-"}
           /\ "." \in Range(domain)
           /\ domain \notin {<<"l", "o", "c", "a", "l", "h", "o", "s", "t">>,
                             <<"l", "o", "c", "a", "l">>,
                             <<"e", "x", "a", "m", "p", "l", "e">>,
                             <<"i", "n", "v", "a", "l", "i", "d">>,
                             <<"t", "e", "s", "t">>}

\* C39: every result of _normalize_email_for_response has exactly one "@",
\* a non-empty local part made of [A-Za-z0-9._+-] only, and a domain that
\* contains a "." and is none of localhost, local, example, invalid, test.
C39_ResultIsWellFormed ==
    fout # << >> => WellFormedAddress(fout[Len(fout)])

\* An input with two "@" and a character the local part does not admit
\* before the last of them, normalized to something other than the fallback.
C39_Witness ==
    /\ Len(fout) >= 1
    /\ Cardinality(AtSigns(fin)) = 2
    /\ \E k \in DOMAIN fin : fin[k] = "(" /\ \A a \in AtSigns(fin) : k < a
    /\ fout[1] # FALLBACK

----------------------------------------------------------------------------
(* Properties of SpecRelay.                                                *)

\* The forward calls the step makes for the external code c.
Forwards(c) == CountIn(dispatches', c) - CountIn(dispatches, c)

----------------------------------------------------------------------------
(* Properties of SpecTrigger.                                              *)

\* The payload b is one the webhook dispatches for: an order event that is
\* order.paid or carries the status paid or approved in any letter case.
DispatchDue(b) ==
    /\ b.event \in {"order.created", "order.paid"}
    /\ \/ b.event = "order.paid"
       \/ EqualsIgnoringCase(b.status, paid)
       \/ EqualsIgnoringCase(b.status, approved)

\* C32: a webhook request triggers the fulfillment dispatch exactly when its
\* event is order.created or order.paid and the event is order.paid or the
\* status is paid / approved, and then the automation engine is called at
\* most once for it; order.created with another status creates the order
\* and dispatches nothing; every other event creates and dispatches nothing.
C32_DispatchOnlyForPaidOrders ==
    [][Len(hooks') > Len(hooks) =>
          LET h == LastHook
              b == LastHook.d.body
          IN  /\ h.fired <=> DispatchDue(b)
              /\ Forwards(b.code) \in {0, 1}
              /\ \A c \in DOMAIN dispatches' : c # b.code => Forwards(c) = 0
              /\ Forwards(b.code) = 1 => h.fired
              /\ ~h.fired => h.resp = "200" /\ _IDEM_CACHE' = _IDEM_CACHE
              /\ (b.event = "order.created" /\ ~DispatchDue(b))
                    => h.pedido # 0 /\ Ingested(h)
              /\ b.event \notin {"order.created", "order.paid"}
                    => /\ h.pedido = 0
                       /\ pedidos' = pedidos /\ itens' = itens]_vars

\* An order.created with the status PAID in capitals was ingested, its
\* dispatch was triggered and reached the automation engine.
C32_Witness ==
    \E k \in DOMAIN hooks :
       /\ hooks[k].d.body.event = "order.created"
       /\ hooks[k].d.body.status = <<"P", "A", "I", "D">>
       /\ hooks[k].fired /\ hooks[k].called
       /\ hooks[k].pedido \in DOMAIN pedidos

----------------------------------------------------------------------------
(* Properties of SpecHook: orders per external code.                       *)

\* C33: the webhook never leaves two local orders with the same external
\* code: a second order.created / order.paid delivery for a code that has a
\* local order inserts no order and no items.
C33_OneLocalOrderPerCode ==
    /\ \A p, q \in DOMAIN pedidos :
          pedidos[p].codigo = pedidos[q].codigo => p = q
    /\ \A j, k \in DOMAIN hooks :
          (/\ hooks[j].pedido # 0 /\ hooks[k].pedido # 0
           /\ hooks[j].d.body.code = hooks[k].d.body.code) => j = k

----------------------------------------------------------------------------
(* Properties of SpecDispatch.                                             *)

\* The platform stored for the first item of the k-th delivery, PS5 (the
\* key the request uses) when the order has no items.
FirstPlataforma(k) ==
    IF hooks[k].d.body.items = << >> THEN "PS5"
    ELSE itens[hooks[k].item0].plataforma

\* C31: the variant label of the outbound fulfillment request depends on the
\* platform of the order's first item only (orders that agree on it get the
\* same label, whatever their later items are), and the order identifier is
\* the external code, or the local order id when the order has no code.
C31_VariantFromFirstItemOnly ==
    /\ Len(fout) = Len(hooks)
    /\ \A j, k \in DOMAIN hooks :
          FirstPlataforma(j) = FirstPlataforma(k)
             => fout[j].variant = fout[k].variant
    /\ \A k \in DOMAIN hooks :
          fout[k].order_id = IF hooks[k].d.body.code # ""
                             THEN hooks[k].d.body.code
                             ELSE ToString(hooks[k].pedido)

\* Two orders agree on the first item and differ in the second, and the
\* second order has no external code: its request carries the local id 2.
C31_Witness ==
    /\ Len(hooks) = 2 /\ Len(fout) = 2
    /\ Len(hooks[1].d.body.items) = 2 /\ Len(hooks[2].d.body.items) = 2
    /\ hooks[1].d.body.items[1] = hooks[2].d.body.items[1]
    /\ itens[hooks[1].item0 + 1].plataforma # itens[hooks[2].item0 + 1].plataforma
    /\ fout[1].variant = fout[2].variant
    /\ hooks[2].d.body.code = "" /\ fout[2].order_id = "2"

\* C36: the platform labels round-trip through ingestion and dispatch: an
\* order whose first item has the platform "PS4 Primaria", "PS4 Secundaria",
\* "PS5 Primaria" or "PS5 Secundaria" (with the accents of the storefront)
\* is dispatched with that label as its variant.
C36_LabelsRoundTrip ==
    \A k \in DOMAIN hooks :
       (/\ k \in DOMAIN fout
        /\ hooks[k].d.body.items # << >>
        /\ hooks[k].d.body.items[1].platform \in DispatchLabels)
          => fout[k].variant = hooks[k].d.body.items[1].platform

----------------------------------------------------------------------------
(* Properties of SpecIngest: the two ingestion functions side by side.     *)

\* C37: main._criar_pedido_local_de_yampi and webhook/yampi.criar_pedido_local
\* store the same result for the same external order: the rows the deployed
\* module stored carry the status and, item by item, the platform that
\* either function computes from the payload.
C37_TranslatorsAgree ==
    \A k \in DOMAIN hooks :
       LET b == hooks[k].d.body IN
       /\ pedidos[hooks[k].pedido].status = main_status(b.status)
       /\ pedidos[hooks[k].pedido].status = router_status(b.status)
       /\ \A i \in DOMAIN b.items :
             /\ itens[hooks[k].item0 + i - 1].plataforma = main_plataforma(b.items[i])
             /\ itens[hooks[k].item0 + i - 1].plataforma = router_plataforma(b.items[i])

====
